---- MODULE Spec2Model ----
(***************************************************************************)
(* Address-space resolution of the kube-controller-manager node IPAM       *)
(* controller (cmd/kube-controller-manager/app/core.go): validateCIDRs,    *)
(* processCIDRs, setNodeCIDRMaskSizes and the start sequence of            *)
(* startNodeIpamController that calls them.                                *)
(***************************************************************************)
EXTENDS Integers, Sequences, FiniteSets, TLC

(***************************************************************************)
(* Bounds of the model.                                                    *)
(***************************************************************************)
\* Largest number of comma-separated segments in a --cluster-cidr value.
MaxSegs == 3

(***************************************************************************)
(* Program constants.                                                      *)
(***************************************************************************)
defaultNodeMaskCIDRIPv4 == 24

\* defaultNodeMaskCIDRIPv6 with the value of the IPv4 default.
defaultNodeMaskCIDRIPv6Wrong == defaultNodeMaskCIDRIPv4

defaultNodeMaskCIDRIPv6 == 64

(***************************************************************************)
(* Text.  A configuration string is a sequence of symbols.  A symbol is a  *)
(* record [addr, ones]: a blank, a comma, a piece of junk text, or an      *)
(* address literal followed by "/ones".  ones = -1 marks a symbol that is  *)
(* not an address literal.                                                 *)
(***************************************************************************)
SP    == [addr |-> " ", ones |-> -1]
COMMA == [addr |-> ",", ones |-> -1]
JUNK  == [addr |-> "x", ones |-> -1]

IPv4Texts == {"10.0.0.0", "10.1.0.0", "10.96.0.0"}
IPv6Texts == {"fd00::", "fd01::"}

Lit(a, n) == [addr |-> a, ones |-> n]

\* strings.TrimSpace: drop the leading and the trailing blanks.
RECURSIVE TrimLeft(_)
TrimLeft(s) ==
    IF s # <<>> /\ Head(s) = SP THEN TrimLeft(Tail(s)) ELSE s

RECURSIVE TrimRight(_)
TrimRight(s) ==
    IF s # <<>> /\ s[Len(s)] = SP THEN TrimRight(SubSeq(s, 1, Len(s) - 1)) ELSE s

TrimSpace(s) == TrimRight(TrimLeft(s))

\* strings.Split(s, ","): the segments between the commas; a string without
\* a comma (the empty string too) gives one segment.
RECURSIVE SplitFrom(_, _)
SplitFrom(s, cur) ==
    IF s = <<>> THEN <<cur>>
    ELSE IF Head(s) = COMMA THEN <<cur>> \o SplitFrom(Tail(s), <<>>)
    ELSE SplitFrom(Tail(s), Append(cur, Head(s)))

Split(s) == SplitFrom(s, <<>>)

\* strings.Join(segs, ","), used to build the configuration values.
RECURSIVE Join(_)
Join(segs) ==
    IF segs = <<>> THEN <<>>
    ELSE IF Len(segs) = 1 THEN segs[1]
    ELSE segs[1] \o <<COMMA>> \o Join(Tail(segs))

(***************************************************************************)
(* Networks.  A *net.IPNet is [IP, Ones]; IP is [a, len] with len the      *)
(* number of bytes of the parsed address (4 or 16).  NilNet is a nil       *)
(* pointer.                                                                *)
(***************************************************************************)
NilNet == [IP |-> [a |-> "", len |-> 0], Ones |-> -1]

\* A nil / zero-value net.IP.
NilIP == [a |-> "", len |-> 0, host |-> 0]

\* netutils.ParseCIDRSloppy: the text must be exactly one address literal
\* with a prefix length inside the range of its family; nothing is trimmed.
ParseOK(seg) ==
    /\ Len(seg) = 1
    /\ \/ seg[1].addr \in IPv4Texts /\ seg[1].ones \in 0..32
       \/ seg[1].addr \in IPv6Texts /\ seg[1].ones \in 0..128

ParseCIDRSloppy(seg) ==
    IF ParseOK(seg)
    THEN [net |-> [IP |-> [a |-> seg[1].addr,
                           len |-> IF seg[1].addr \in IPv4Texts THEN 4 ELSE 16],
                   Ones |-> seg[1].ones],
          err |-> "nil"]
    ELSE [net |-> NilNet, err |-> "InvalidCIDR"]

\* netutils.ParseCIDRs: parse every segment, fail on the first that does not parse.
RECURSIVE ParseCIDRs(_)
ParseCIDRs(segs) ==
    IF segs = <<>> THEN [cidrs |-> <<>>, err |-> "nil"]
    ELSE LET p == ParseCIDRSloppy(Head(segs)) IN
         IF p.err # "nil" THEN [cidrs |-> <<>>, err |-> p.err]
         ELSE LET rest == ParseCIDRs(Tail(segs)) IN
              IF rest.err # "nil" THEN [cidrs |-> <<>>, err |-> rest.err]
              ELSE [cidrs |-> <<p.net>> \o rest.cidrs, err |-> "nil"]

\* netutils.IsIPv6 / IsIPv6CIDR: the address is not nil and has no 4-byte form.
IsIPv6(ip) == ip.len # 0 /\ ip.len # 4
IsIPv6CIDR(cidr) == IsIPv6(cidr.IP)

\* netutils.IsDualStackCIDRs: at least one network of each family; an error
\* for a nil entry.
IsDualStackCIDRs(cidrs) ==
    IF \E i \in 1..Len(cidrs) : cidrs[i] = NilNet
    THEN [dualstack |-> FALSE, err |-> "InvalidCIDREntry"]
    ELSE [dualstack |-> /\ \E i \in 1..Len(cidrs) : IsIPv6(cidrs[i].IP)
                        /\ \E i \in 1..Len(cidrs) : ~IsIPv6(cidrs[i].IP),
          err |-> "nil"]

(***************************************************************************)
(* Errors.  "nil" is no error; the other values name the error kinds of    *)
(* core.go by the message they carry.                                      *)
(***************************************************************************)
\* "len of ClusterCIDRs==%v and they are not configured as dual stack ..."
ErrNotDualStack == "NotDualStack"
\* "length of clusterCIDRs is:%v more than max allowed of 2"
ErrTooManyCIDRs == "TooManyCIDRs"
\* "usage of --node-cidr-mask-size is not allowed with dual-stack clusters"
ErrMaskWithDualStack == "MaskWithDualStack"
\* "usage of --node-cidr-mask-size-ipv4 and --node-cidr-mask-size-ipv6 is not
\*  allowed if --node-cidr-mask-size is set ..."
ErrFamilyMaskWithMask == "FamilyMaskWithMask"
\* "usage of --node-cidr-mask-size-ipv4 is not allowed for a single-stack IPv6 cluster"
ErrMaskV4OnIPv6 == "MaskV4OnIPv6"
\* "usage of --node-cidr-mask-size-ipv6 is not allowed for a single-stack IPv4 cluster"
ErrMaskV6OnIPv4 == "MaskV6OnIPv4"

(***************************************************************************)
(* processCIDRs, validateCIDRs.                                            *)
(***************************************************************************)
\* processCIDRs that also trims every segment.
processCIDRsTrimsSegments(cidrsList) ==
    LET outer      == Split(TrimSpace(cidrsList))
        cidrsSplit == [i \in 1..Len(outer) |-> TrimSpace(outer[i])]
        parsed     == ParseCIDRs(cidrsSplit)
    IN  IF parsed.err # "nil"
        THEN [cidrs |-> <<>>, dualstack |-> FALSE, err |-> parsed.err]
        ELSE [cidrs |-> parsed.cidrs,
              dualstack |-> IsDualStackCIDRs(parsed.cidrs).dualstack,
              err |-> "nil"]

processCIDRs(cidrsList) ==
    LET cidrsSplit == Split(TrimSpace(cidrsList))
        parsed     == ParseCIDRs(cidrsSplit)
    IN  IF parsed.err # "nil"
        THEN [cidrs |-> <<>>, dualstack |-> FALSE, err |-> parsed.err]
        ELSE [cidrs |-> parsed.cidrs,
              dualstack |-> IsDualStackCIDRs(parsed.cidrs).dualstack,
              err |-> "nil"]

\* validateCIDRs without the dual-stack test of line 807.
validateCIDRsNoPairCheck(cidrsList) ==
    LET p == processCIDRs(cidrsList) IN
    IF p.err # "nil" THEN [cidrs |-> <<>>, err |-> p.err]
    ELSE IF Len(p.cidrs) > 2
         THEN [cidrs |-> <<>>, err |-> ErrTooManyCIDRs]
    ELSE [cidrs |-> p.cidrs, err |-> "nil"]

\* validateCIDRs with the two tests of lines 807 and 812 in the other order.
validateCIDRsCapFirst(cidrsList) ==
    LET p == processCIDRs(cidrsList) IN
    IF p.err # "nil" THEN [cidrs |-> <<>>, err |-> p.err]
    ELSE IF Len(p.cidrs) > 2
         THEN [cidrs |-> <<>>, err |-> ErrTooManyCIDRs]
    ELSE IF Len(p.cidrs) > 1 /\ ~p.dualstack
         THEN [cidrs |-> <<>>, err |-> ErrNotDualStack]
    ELSE [cidrs |-> p.cidrs, err |-> "nil"]

\* validateCIDRs without the length test of line 812.
validateCIDRsNoCap(cidrsList) ==
    LET p == processCIDRs(cidrsList) IN
    IF p.err # "nil" THEN [cidrs |-> <<>>, err |-> p.err]
    ELSE IF Len(p.cidrs) > 1 /\ ~p.dualstack
         THEN [cidrs |-> <<>>, err |-> ErrNotDualStack]
    ELSE [cidrs |-> p.cidrs, err |-> "nil"]

validateCIDRs(cidrsList) ==
    LET p == processCIDRs(cidrsList) IN
    IF p.err # "nil" THEN [cidrs |-> <<>>, err |-> p.err]
    ELSE IF Len(p.cidrs) > 1 /\ ~p.dualstack
         THEN [cidrs |-> <<>>, err |-> ErrNotDualStack]
    ELSE IF Len(p.cidrs) > 2
         THEN [cidrs |-> <<>>, err |-> ErrTooManyCIDRs]
    ELSE [cidrs |-> p.cidrs, err |-> "nil"]

(***************************************************************************)
(* setNodeCIDRMaskSizes, its closure sortedSizes and its locals.           *)
(***************************************************************************)
\* sortedSizes with the two families exchanged.
sortedSizesSwapped(cidrs, maskSizeIPv4, maskSizeIPv6) ==
    [idx \in 1..Len(cidrs) |->
        IF IsIPv6CIDR(cidrs[idx]) THEN maskSizeIPv4 ELSE maskSizeIPv6]

\* sortedSizes that puts the IPv4 size first whatever the order of the input.
sortedSizesV4First(cidrs, maskSizeIPv4, maskSizeIPv6) ==
    IF Len(cidrs) = 2 THEN <<maskSizeIPv4, maskSizeIPv6>>
    ELSE [idx \in 1..Len(cidrs) |->
            IF IsIPv6CIDR(cidrs[idx]) THEN maskSizeIPv6 ELSE maskSizeIPv4]

sortedSizes(cidrs, maskSizeIPv4, maskSizeIPv6) ==
    [idx \in 1..Len(cidrs) |->
        IF IsIPv6CIDR(cidrs[idx]) THEN maskSizeIPv6 ELSE maskSizeIPv4]

\* isDualstack that asks for more than two networks.
isDualstackMoreThanTwo(cidrs) == Len(cidrs) > 2

isDualstack(cidrs) == Len(cidrs) > 1

maskConfigured(cfg) == cfg.NodeCIDRMaskSize # 0

maskV4Configured(cfg) == cfg.NodeCIDRMaskSizeIPv4 # 0

\* maskV6Configured that reads the IPv4 field.
maskV6ConfiguredReadsIPv4(cfg) == cfg.NodeCIDRMaskSizeIPv4 # 0

maskV6Configured(cfg) == cfg.NodeCIDRMaskSizeIPv6 # 0

\* isSingleStackIPv6 with the test negated.
isSingleStackIPv6Negated(cidrs) == ~IsIPv6CIDR(cidrs[1])

isSingleStackIPv6(cidrs) == IsIPv6CIDR(cidrs[1])

\* Lines 856-875: the branch taken for more than one cluster CIDR.
dualStackSizes(cfg, cidrs) ==
    IF cfg.NodeCIDRMaskSize # 0
    THEN [sizes |-> <<>>, err |-> ErrMaskWithDualStack]
    ELSE [sizes |-> sortedSizes(cidrs,
                      IF cfg.NodeCIDRMaskSizeIPv4 # 0
                      THEN cfg.NodeCIDRMaskSizeIPv4 ELSE defaultNodeMaskCIDRIPv4,
                      IF cfg.NodeCIDRMaskSizeIPv6 # 0
                      THEN cfg.NodeCIDRMaskSizeIPv6 ELSE defaultNodeMaskCIDRIPv6),
          err |-> "nil"]

\* singleStackSizes that accepts the two per-family masks together.
singleStackSizesAcceptsFamilyPair(cfg, cidrs) ==
    IF maskConfigured(cfg) THEN
        IF maskV4Configured(cfg) \/ maskV6Configured(cfg)
        THEN [sizes |-> <<>>, err |-> ErrFamilyMaskWithMask]
        ELSE [sizes |-> sortedSizes(cidrs, cfg.NodeCIDRMaskSize, cfg.NodeCIDRMaskSize),
              err |-> "nil"]
    ELSE IF maskV4Configured(cfg) /\ ~maskV6Configured(cfg) /\ isSingleStackIPv6(cidrs)
    THEN [sizes |-> <<>>, err |-> ErrMaskV4OnIPv6]
    ELSE IF maskV6Configured(cfg) /\ ~maskV4Configured(cfg) /\ ~isSingleStackIPv6(cidrs)
    THEN [sizes |-> <<>>, err |-> ErrMaskV6OnIPv4]
    ELSE [sizes |-> sortedSizes(cidrs,
                      IF maskV4Configured(cfg)
                      THEN cfg.NodeCIDRMaskSizeIPv4 ELSE defaultNodeMaskCIDRIPv4,
                      IF maskV6Configured(cfg)
                      THEN cfg.NodeCIDRMaskSizeIPv6 ELSE defaultNodeMaskCIDRIPv6),
          err |-> "nil"]

\* Lines 877-909: the branch taken for one cluster CIDR.
singleStackSizes(cfg, cidrs) ==
    IF maskConfigured(cfg) THEN
        IF maskV4Configured(cfg) \/ maskV6Configured(cfg)
        THEN [sizes |-> <<>>, err |-> ErrFamilyMaskWithMask]
        ELSE [sizes |-> sortedSizes(cidrs, cfg.NodeCIDRMaskSize, cfg.NodeCIDRMaskSize),
              err |-> "nil"]
    ELSE IF maskV4Configured(cfg) /\ isSingleStackIPv6(cidrs)
    THEN [sizes |-> <<>>, err |-> ErrMaskV4OnIPv6]
    ELSE IF maskV6Configured(cfg) /\ ~isSingleStackIPv6(cidrs)
    THEN [sizes |-> <<>>, err |-> ErrMaskV6OnIPv4]
    ELSE [sizes |-> sortedSizes(cidrs,
                      IF maskV4Configured(cfg)
                      THEN cfg.NodeCIDRMaskSizeIPv4 ELSE defaultNodeMaskCIDRIPv4,
                      IF maskV6Configured(cfg)
                      THEN cfg.NodeCIDRMaskSizeIPv6 ELSE defaultNodeMaskCIDRIPv6),
          err |-> "nil"]

setNodeCIDRMaskSizes(cfg, cidrs) ==
    IF isDualstack(cidrs) THEN dualStackSizes(cfg, cidrs)
    ELSE IF cidrs = <<>>
    THEN [sizes |-> <<>>, err |-> "panic"]  \* clusterCIDRs[0]: index out of range
    ELSE singleStackSizes(cfg, cidrs)

(***************************************************************************)
(* Configuration values the controller manager can be started with.        *)
(***************************************************************************)
\* The segments a --cluster-cidr value is made of: networks of both
\* families, a network preceded by a blank, a prefix length out of range
\* and the empty segment.
ClusterSegments ==
    { <<Lit("10.0.0.0", 16)>>, <<Lit("10.1.0.0", 28)>>, <<Lit("fd00::", 48)>>,
      <<SP, Lit("fd01::", 80)>>, <<Lit("10.0.0.0", 33)>>, <<>> }

ClusterCIDRValues ==
    { Join(segs) : segs \in UNION { [1..n -> ClusterSegments] : n \in 1..MaxSegs } }

\* --service-cluster-ip-range and its secondary: unset, a network of either
\* family, unparseable text.
ServiceCIDRValues ==
    { <<>>, <<Lit("10.96.0.0", 12)>>, <<Lit("fd00::", 108)>>, <<JUNK>> }

\* --node-cidr-mask-size, --node-cidr-mask-size-ipv4, --node-cidr-mask-size-ipv6
\* (int32 flags, 0 is unset).
MaskValues   == {0, 8, 26}
MaskV4Values == {0, 23}
MaskV6Values == {0, 80}

AllocatorTypes == {"RangeAllocator", "CloudAllocator"}

Config(alloc, cloudNil, allocType, routes, routesOK, cluster, svc, svc2, m, m4, m6) ==
    [AllocateNodeCIDRs |-> alloc, CloudNil |-> cloudNil,
     CIDRAllocatorType |-> allocType, ConfigureCloudRoutes |-> routes,
     RoutesSupported |-> routesOK, ClusterCIDR |-> cluster,
     ServiceCIDR |-> svc, SecondaryServiceCIDR |-> svc2,
     NodeCIDRMaskSize |-> m, NodeCIDRMaskSizeIPv4 |-> m4,
     NodeCIDRMaskSizeIPv6 |-> m6]

\* Every address plan with node CIDR allocation by the range allocator on a
\* cloud that supports routes, and every combination of the start switches
\* with one address plan (the code reads the switches before anything else).
\* RoutesSupported is the second result of Cloud.Routes().
\* The --cluster-cidr values the service CIDR flags are combined with: one
\* network of either family, a dual-stack pair, a pair of one family.
ServicePlanClusterCIDRs ==
    { <<Lit("10.0.0.0", 16)>>,
      <<Lit("fd00::", 48)>>,
      Join(<<(<<Lit("10.0.0.0", 16)>>), (<<Lit("fd00::", 48)>>)>>),
      Join(<<(<<Lit("10.0.0.0", 16)>>), (<<Lit("10.1.0.0", 28)>>)>>) }

Configs ==
    { Config(TRUE, FALSE, "RangeAllocator", TRUE, TRUE, c, <<>>, <<>>, m, m4, m6) :
        c \in ClusterCIDRValues,
        m \in MaskValues, m4 \in MaskV4Values, m6 \in MaskV6Values }
    \cup
    { Config(TRUE, FALSE, "RangeAllocator", TRUE, TRUE, c, s, s2, m, m4, m6) :
        c \in ServicePlanClusterCIDRs,
        s \in ServiceCIDRValues, s2 \in ServiceCIDRValues,
        m \in MaskValues, m4 \in MaskV4Values, m6 \in MaskV6Values }
    \cup
    { Config(a, n, t, r, ok, <<Lit("10.0.0.0", 16)>>, <<>>, <<>>, 0, 0, 0) :
        a \in BOOLEAN, n \in BOOLEAN, t \in AllocatorTypes,
        r \in BOOLEAN, ok \in BOOLEAN }

(***************************************************************************)
(* State of the controller manager: one run of startNodeIpamController     *)
(* followed by one run of startNodeRouteController on the same             *)
(* ControllerContext.                                                      *)
(***************************************************************************)
VARIABLES
    pc,                    \* position in startNodeIpamController
    config,                \* controllerContext.ComponentConfig
    clusterCIDRs,          \* local clusterCIDRs
    serviceCIDR,           \* local serviceCIDR (NilNet = nil)
    secondaryServiceCIDR,  \* local secondaryServiceCIDR (NilNet = nil)
    nodeCIDRMaskSizes,     \* local nodeCIDRMaskSizes
    err,                   \* the error returned ("nil" = none)
    started,               \* the bool returned
    constructed,           \* NewNodeIpamController has returned a controller
    running,               \* the goroutine RunWithMetrics has been started
    routePc,               \* position in startNodeRouteController
    routeClusterCIDRs,     \* local clusterCIDRs of startNodeRouteController
    routeErr,              \* the error startNodeRouteController returned
    routeStarted,          \* the bool startNodeRouteController returned
    routeRunning           \* the goroutine routeController.Run has been started

ipamVars == <<pc, config, clusterCIDRs, serviceCIDR, secondaryServiceCIDR,
              nodeCIDRMaskSizes, err, started, constructed, running>>

routeVars == <<routePc, routeClusterCIDRs, routeErr, routeStarted, routeRunning>>

(***************************************************************************)
(* State of the API server options (completion.go 53-142): one call of     *)
(* ServerRunOptions.Complete.                                              *)
(***************************************************************************)
VARIABLES
    apiPc,                   \* position in ServerRunOptions.Complete
    serviceClusterIPRanges,  \* opts.ServiceClusterIPRanges
    apiServerServiceIP,      \* first result of getServiceIPAndRanges
    primaryServiceIPRange,   \* second result of getServiceIPAndRanges
    secondaryServiceIPRange, \* third result of getServiceIPAndRanges
    apiErr,                  \* the error of getServiceIPAndRanges / Complete
    serviceIPRangeCalls,     \* the arguments controlplane.ServiceIPRange was called with
    completed                \* the CompletedOptions returned by Complete

apiVars == <<apiPc, serviceClusterIPRanges, apiServerServiceIP,
             primaryServiceIPRange, secondaryServiceIPRange, apiErr,
             serviceIPRangeCalls, completed>>

(***************************************************************************)
(* State of the signal handling (completion.go 160-225, package server).   *)
(***************************************************************************)
VARIABLES
    onlyOneSignalHandler,  \* the channel of line 172: "open" or "closed"
    shutdownHandler,       \* the channel of line 174: [made, buf]; made = FALSE is nil
    notified,              \* signal.Notify has registered shutdownHandler
    ctxDone,               \* the context returned by SetupSignalContext is cancelled
    handlerPc,             \* position of the goroutine of lines 203-208
    handlers,              \* number of handler goroutines started
    exitCode,              \* -1 while the process runs, the code of os.Exit after
    setupCalls,            \* calls of SetupSignalContext / SetupSignalHandler so far
    panics,                \* calls that panicked
    delivered,             \* signals placed into shutdownHandler so far
    received,              \* signals the handler goroutine has taken out
    lastRequest,           \* result of the last RequestShutdown ("none" before)
    signalsSent,           \* signals raised and shutdowns requested so far
    returnedKind           \* what the last set-up call returned to its caller

sigVars == <<onlyOneSignalHandler, shutdownHandler, notified, ctxDone, handlerPc,
             handlers, exitCode, setupCalls, panics, delivered, received,
             lastRequest, signalsSent, returnedKind>>

\* BuiltInAuthorizationOptions and what its methods returned.
VARIABLES
    authzPc,               \* "idle", "options", "validated", "converted"
    o,                     \* the *BuiltInAuthorizationOptions
    gate,                  \* StructuredAuthorizationConfiguration is enabled
    file,                  \* what --authorization-config names
    completeCalls,         \* calls of Complete so far
    validateErrors,        \* what Validate returned
    authorizerConfig       \* what ToAuthorizationConfig returned

authzVars == <<authzPc, o, gate, file, completeCalls, validateErrors,
               authorizerConfig>>

vars == <<ipamVars, routeVars, apiVars, sigVars, authzVars>>

\* The authorization options are not in use.
AuthzIdle ==
    /\ authzPc = "idle"
    /\ o = [isNil |-> TRUE]
    /\ gate = FALSE
    /\ file = [readable |-> FALSE, invalid |-> FALSE, Authorizers |-> <<>>]
    /\ completeCalls = 0
    /\ validateErrors = <<>>
    /\ authorizerConfig = [config |-> [isNil |-> TRUE], err |-> "nil"]

\* No call of ServerRunOptions.Complete is under way.
ApiIdle ==
    /\ apiPc = "idle"
    /\ serviceClusterIPRanges = <<>>
    /\ apiServerServiceIP = NilIP
    /\ primaryServiceIPRange = NilNet
    /\ secondaryServiceIPRange = NilNet
    /\ apiErr = "nil"
    /\ serviceIPRangeCalls = <<>>
    /\ completed = FALSE

\* Package server as loaded: lines 172 and 174.
SigInit ==
    /\ onlyOneSignalHandler = "open"
    /\ shutdownHandler = [made |-> FALSE, buf |-> <<>>]
    /\ notified = FALSE
    /\ ctxDone = FALSE
    /\ handlerPc = "none"
    /\ handlers = 0
    /\ exitCode = -1
    /\ setupCalls = 0
    /\ panics = 0
    /\ delivered = 0
    /\ received = 0
    /\ lastRequest = "none"
    /\ signalsSent = 0
    /\ returnedKind = "none"

\* startNodeRouteController has not been called.
RouteInit ==
    /\ routePc = "start"
    /\ routeClusterCIDRs = <<>>
    /\ routeErr = "nil"
    /\ routeStarted = FALSE
    /\ routeRunning = FALSE

Init ==
    /\ pc = "start"
    /\ config \in Configs
    /\ clusterCIDRs = <<>>
    /\ serviceCIDR = NilNet
    /\ secondaryServiceCIDR = NilNet
    /\ nodeCIDRMaskSizes = <<>>
    /\ err = "nil"
    /\ started = FALSE
    /\ constructed = FALSE
    /\ running = FALSE
    /\ RouteInit
    /\ ApiIdle
    /\ SigInit
    /\ AuthzIdle

\* return nil, s, e
Return(s, e) ==
    /\ pc' = "returned"
    /\ started' = s
    /\ err' = e

\* core.go 124-132: the two switches read before any address is looked at.
CheckSwitches ==
    /\ pc = "start"
    /\ UNCHANGED <<routeVars, apiVars, sigVars, authzVars>>
    /\ IF ~config.AllocateNodeCIDRs
       THEN Return(FALSE, "nil")
       ELSE IF config.CloudNil /\ config.CIDRAllocatorType = "CloudAllocator"
       THEN Return(FALSE, "CloudAllocatorWithoutCloud")
       ELSE /\ pc' = "validateCIDRs"
            /\ UNCHANGED <<started, err>>
    /\ UNCHANGED <<config, clusterCIDRs, serviceCIDR, secondaryServiceCIDR,
                   nodeCIDRMaskSizes, constructed, running>>

\* core.go 134-137
ValidateClusterCIDRs ==
    /\ pc = "validateCIDRs"
    /\ UNCHANGED <<routeVars, apiVars, sigVars, authzVars>>
    /\ LET r == validateCIDRs(config.ClusterCIDR) IN
       /\ clusterCIDRs' = r.cidrs
       /\ IF r.err # "nil"
          THEN Return(FALSE, r.err)
          ELSE /\ pc' = "serviceCIDR"
               /\ UNCHANGED <<started, err>>
    /\ UNCHANGED <<config, serviceCIDR, secondaryServiceCIDR,
                   nodeCIDRMaskSizes, constructed, running>>

\* core.go 139-152: a service CIDR that does not parse is logged and left nil.
ParseServiceCIDRs ==
    /\ pc = "serviceCIDR"
    /\ UNCHANGED <<routeVars, apiVars, sigVars, authzVars>>
    /\ serviceCIDR' =
         IF Len(TrimSpace(config.ServiceCIDR)) # 0
         THEN ParseCIDRSloppy(config.ServiceCIDR).net ELSE NilNet
    /\ secondaryServiceCIDR' =
         IF Len(TrimSpace(config.SecondaryServiceCIDR)) # 0
         THEN ParseCIDRSloppy(config.SecondaryServiceCIDR).net ELSE NilNet
    /\ pc' = "dualstackCheck"
    /\ UNCHANGED <<config, clusterCIDRs, nodeCIDRMaskSizes, err, started,
                   constructed, running>>

\* CheckServiceDualStack that goes on without testing the pair.
CheckServiceDualStackSkipped ==
    /\ pc = "dualstackCheck"
    /\ pc' = "setNodeCIDRMaskSizes"
    /\ UNCHANGED <<config, clusterCIDRs, serviceCIDR, secondaryServiceCIDR,
                   nodeCIDRMaskSizes, err, started, constructed, running>>
    /\ UNCHANGED <<routeVars, apiVars, sigVars, authzVars>>

\* CheckServiceDualStack that tests the pair even when one of the two is nil.
CheckServiceDualStackUnguarded ==
    /\ pc = "dualstackCheck"
    /\ UNCHANGED <<routeVars, apiVars, sigVars, authzVars>>
    /\ LET d == IsDualStackCIDRs(<<serviceCIDR, secondaryServiceCIDR>>) IN
       IF d.err # "nil" THEN Return(FALSE, "DualStackCheckFailed")
       ELSE IF ~d.dualstack THEN Return(FALSE, "ServiceCIDRsNotDualStack")
       ELSE pc' = "setNodeCIDRMaskSizes" /\ UNCHANGED <<started, err>>
    /\ UNCHANGED <<config, clusterCIDRs, serviceCIDR, secondaryServiceCIDR,
                   nodeCIDRMaskSizes, constructed, running>>

\* core.go 154-164
CheckServiceDualStack ==
    /\ pc = "dualstackCheck"
    /\ UNCHANGED <<routeVars, apiVars, sigVars, authzVars>>
    /\ IF serviceCIDR # NilNet /\ secondaryServiceCIDR # NilNet
       THEN LET d == IsDualStackCIDRs(<<serviceCIDR, secondaryServiceCIDR>>) IN
            IF d.err # "nil" THEN Return(FALSE, "DualStackCheckFailed")
            ELSE IF ~d.dualstack THEN Return(FALSE, "ServiceCIDRsNotDualStack")
            ELSE pc' = "setNodeCIDRMaskSizes" /\ UNCHANGED <<started, err>>
       ELSE pc' = "setNodeCIDRMaskSizes" /\ UNCHANGED <<started, err>>
    /\ UNCHANGED <<config, clusterCIDRs, serviceCIDR, secondaryServiceCIDR,
                   nodeCIDRMaskSizes, constructed, running>>

\* core.go 168-171
SetMaskSizes ==
    /\ pc = "setNodeCIDRMaskSizes"
    /\ UNCHANGED <<routeVars, apiVars, sigVars, authzVars>>
    /\ LET r == setNodeCIDRMaskSizes(config, clusterCIDRs) IN
       /\ nodeCIDRMaskSizes' = r.sizes
       /\ IF r.err # "nil"
          THEN Return(FALSE, r.err)
          ELSE /\ pc' = "newController"
               /\ UNCHANGED <<started, err>>
    /\ UNCHANGED <<config, clusterCIDRs, serviceCIDR, secondaryServiceCIDR,
                   constructed, running>>

\* core.go 173-186: the constructor belongs to pkg/controller/nodeipam and
\* may refuse the address plan.
NewNodeIpamController ==
    /\ pc = "newController"
    /\ UNCHANGED <<routeVars, apiVars, sigVars, authzVars>>
    /\ \E ok \in BOOLEAN :
         IF ok
         THEN /\ constructed' = TRUE
              /\ pc' = "run"
              /\ UNCHANGED <<started, err>>
         ELSE /\ Return(TRUE, "NewNodeIpamControllerFailed")
              /\ UNCHANGED constructed
    /\ UNCHANGED <<config, clusterCIDRs, serviceCIDR, secondaryServiceCIDR,
                   nodeCIDRMaskSizes, running>>

\* core.go 187-188
RunController ==
    /\ pc = "run"
    /\ UNCHANGED <<routeVars, apiVars, sigVars, authzVars>>
    /\ running' = TRUE
    /\ Return(TRUE, "nil")
    /\ UNCHANGED <<config, clusterCIDRs, serviceCIDR, secondaryServiceCIDR,
                   nodeCIDRMaskSizes, constructed>>

(***************************************************************************)
(* startNodeRouteController (core.go 287-315), called once                 *)
(* startNodeIpamController has returned.                                   *)
(***************************************************************************)
\* return nil, s, e
RouteReturn(s, e) ==
    /\ routePc' = "returned"
    /\ routeStarted' = s
    /\ routeErr' = e

\* core.go 289-301: the controller is not wanted, there is no cloud, or the
\* cloud has no routes.
RouteCheckSwitches ==
    /\ pc = "returned"
    /\ routePc = "start"
    /\ IF ~config.AllocateNodeCIDRs \/ ~config.ConfigureCloudRoutes
       THEN RouteReturn(FALSE, "nil")
       ELSE IF config.CloudNil
       THEN RouteReturn(FALSE, "nil")
       ELSE IF ~config.RoutesSupported
       THEN RouteReturn(FALSE, "nil")
       ELSE /\ routePc' = "validateCIDRs"
            /\ UNCHANGED <<routeStarted, routeErr>>
    /\ UNCHANGED <<routeClusterCIDRs, routeRunning>>
    /\ UNCHANGED <<ipamVars, apiVars, sigVars, authzVars>>

\* RouteValidateClusterCIDRs that goes on whatever validateCIDRs returned.
RouteValidateClusterCIDRsIgnoresError ==
    /\ routePc = "validateCIDRs"
    /\ routeClusterCIDRs' = validateCIDRs(config.ClusterCIDR).cidrs
    /\ routePc' = "run"
    /\ UNCHANGED <<routeStarted, routeErr, routeRunning>>
    /\ UNCHANGED <<ipamVars, apiVars, sigVars, authzVars>>

\* core.go 303-306
RouteValidateClusterCIDRs ==
    /\ routePc = "validateCIDRs"
    /\ LET r == validateCIDRs(config.ClusterCIDR) IN
       /\ routeClusterCIDRs' = r.cidrs
       /\ IF r.err # "nil"
          THEN RouteReturn(FALSE, r.err)
          ELSE /\ routePc' = "run"
               /\ UNCHANGED <<routeStarted, routeErr>>
    /\ UNCHANGED routeRunning
    /\ UNCHANGED <<ipamVars, apiVars, sigVars, authzVars>>

\* core.go 308-314: routecontroller.New returns no error.
RouteRunController ==
    /\ routePc = "run"
    /\ routeRunning' = TRUE
    /\ RouteReturn(TRUE, "nil")
    /\ UNCHANGED routeClusterCIDRs
    /\ UNCHANGED <<ipamVars, apiVars, sigVars, authzVars>>

Next ==
    \/ CheckSwitches
    \/ ValidateClusterCIDRs
    \/ ParseServiceCIDRs
    \/ CheckServiceDualStack
    \/ SetMaskSizes
    \/ NewNodeIpamController
    \/ RunController
    \/ RouteCheckSwitches
    \/ RouteValidateClusterCIDRs
    \/ RouteRunController

Spec == Init /\ [][Next]_vars

(***************************************************************************)
(* Vocabulary of the properties.                                           *)
(***************************************************************************)
ValidateErrors == {"InvalidCIDR", ErrNotDualStack, ErrTooManyCIDRs}

ConflictingMaskErrors ==
    {ErrMaskWithDualStack, ErrFamilyMaskWithMask, ErrMaskV4OnIPv6, ErrMaskV6OnIPv4}

\* The family of a network, read from the text of its address.
FamilyV6(n) == n.IP.a \in IPv6Texts

\* The address length of the family of a network.
FamilyBits(n) == IF FamilyV6(n) THEN 128 ELSE 32

\* The networks named by --cluster-cidr, when every segment parses.
Supplied == ParseCIDRs(Split(TrimSpace(config.ClusterCIDR)))

SameFamily(cidrs) ==
    \A i, j \in 1..Len(cidrs) : FamilyV6(cidrs[i]) = FamilyV6(cidrs[j])

\* validateCIDRs has returned.
ValidateDone ==
    /\ pc \notin {"start", "validateCIDRs"}
    /\ config.AllocateNodeCIDRs
    /\ ~(config.CloudNil /\ config.CIDRAllocatorType = "CloudAllocator")

\* validateCIDRs has returned without an error.
ValidateOK == ValidateDone /\ ~(pc = "returned" /\ err \in ValidateErrors)

\* setNodeCIDRMaskSizes has returned without an error.
MaskOK == pc \in {"newController", "run"} \/ (pc = "returned" /\ started)

\* setNodeCIDRMaskSizes has returned an error.
MaskFailed == pc = "returned" /\ ~started /\ err \in ConflictingMaskErrors

\* setNodeCIDRMaskSizes has returned.
MaskDone == MaskOK \/ MaskFailed

MaskFlagsUnset ==
    /\ config.NodeCIDRMaskSize = 0
    /\ config.NodeCIDRMaskSizeIPv4 = 0
    /\ config.NodeCIDRMaskSizeIPv6 = 0

\* The mask the flags ask for a network of the given family.
MaskInEffect(v6) ==
    IF config.NodeCIDRMaskSize # 0 THEN config.NodeCIDRMaskSize
    ELSE IF v6
         THEN (IF config.NodeCIDRMaskSizeIPv6 # 0
               THEN config.NodeCIDRMaskSizeIPv6 ELSE 64)
         ELSE (IF config.NodeCIDRMaskSizeIPv4 # 0
               THEN config.NodeCIDRMaskSizeIPv4 ELSE 24)

(***************************************************************************)
(* C1.  Every successful setNodeCIDRMaskSizes returns as many sizes as     *)
(* there are cluster CIDRs, and size i is the mask in effect for the       *)
(* family of cluster CIDR i, so the sizes follow the order of the input.   *)
(***************************************************************************)
C1_SizesTrackClusterCIDRs ==
    MaskOK =>
        /\ Len(nodeCIDRMaskSizes) = Len(clusterCIDRs)
        /\ \A i \in 1..Len(clusterCIDRs) :
             nodeCIDRMaskSizes[i] = MaskInEffect(FamilyV6(clusterCIDRs[i]))

\* An [IPv6, IPv4] cluster with both per-family masks resolved to [80, 23].
C1_Witness ==
    /\ MaskOK
    /\ Len(clusterCIDRs) = 2
    /\ FamilyV6(clusterCIDRs[1]) /\ ~FamilyV6(clusterCIDRs[2])
    /\ nodeCIDRMaskSizes = <<80, 23>>

(***************************************************************************)
(* C2.  A --cluster-cidr of exactly two networks of one family makes       *)
(* validateCIDRs fail with the not-dual-stack error and return no network. *)
(***************************************************************************)
C2_SameFamilyPairRejected ==
    (ValidateDone /\ Supplied.err = "nil" /\ Len(Supplied.cidrs) = 2
        /\ SameFamily(Supplied.cidrs))
    => /\ pc = "returned"
       /\ err = ErrNotDualStack
       /\ ~started
       /\ clusterCIDRs = <<>>

\* Two IPv6 networks were supplied and validateCIDRs has returned.
C2_Witness ==
    /\ ValidateDone
    /\ Supplied.err = "nil"
    /\ Len(Supplied.cidrs) = 2
    /\ FamilyV6(Supplied.cidrs[1]) /\ FamilyV6(Supplied.cidrs[2])
    /\ err = ErrNotDualStack

C4_ValidatedShape ==
    ValidateOK =>
        /\ Len(clusterCIDRs) \in {1, 2}
        /\ Len(clusterCIDRs) = 2 =>
             FamilyV6(clusterCIDRs[1]) # FamilyV6(clusterCIDRs[2])

\* validateCIDRs returned an [IPv4, IPv6] pair.
C4_Witness ==
    /\ ValidateOK
    /\ Len(clusterCIDRs) = 2
    /\ ~FamilyV6(clusterCIDRs[1]) /\ FamilyV6(clusterCIDRs[2])

(***************************************************************************)
(* C5.  One cluster CIDR and no mask flag: setNodeCIDRMaskSizes succeeds   *)
(* with [24] for an IPv4 network and [64] for an IPv6 network.             *)
(***************************************************************************)
C5_SingleStackDefaults ==
    (MaskDone /\ Len(Supplied.cidrs) = 1 /\ MaskFlagsUnset)
    => /\ MaskOK
       /\ nodeCIDRMaskSizes =
            IF FamilyV6(Supplied.cidrs[1]) THEN <<64>> ELSE <<24>>

\* A single IPv6 cluster without mask flags resolved to [64].
C5_Witness ==
    /\ MaskOK
    /\ MaskFlagsUnset
    /\ Len(clusterCIDRs) = 1
    /\ FamilyV6(clusterCIDRs[1])
    /\ nodeCIDRMaskSizes = <<64>>

(***************************************************************************)
(* C6.  Two cluster CIDRs and a non-zero NodeCIDRMaskSize:                 *)
(* setNodeCIDRMaskSizes fails with the conflicting-mask error and returns  *)
(* no sizes, whatever the two per-family masks are.                        *)
(***************************************************************************)
C6_LegacyMaskOnDualStackRejected ==
    (MaskDone /\ Len(clusterCIDRs) = 2 /\ config.NodeCIDRMaskSize # 0)
    => /\ MaskFailed
       /\ err = ErrMaskWithDualStack
       /\ nodeCIDRMaskSizes = <<>>

\* A dual-stack cluster with NodeCIDRMaskSize and both per-family masks set
\* was refused.
C6_Witness ==
    /\ MaskFailed
    /\ Len(clusterCIDRs) = 2
    /\ config.NodeCIDRMaskSize # 0
    /\ config.NodeCIDRMaskSizeIPv4 # 0
    /\ config.NodeCIDRMaskSizeIPv6 # 0
    /\ err = ErrMaskWithDualStack

(***************************************************************************)
(* C7.  One cluster CIDR, NodeCIDRMaskSize unset: a non-zero               *)
(* NodeCIDRMaskSizeIPv4 with an IPv6 network fails with the                *)
(* conflicting-mask error, a non-zero NodeCIDRMaskSizeIPv6 with an IPv4    *)
(* network fails with the conflicting-mask error, and where neither        *)
(* failure applies the per-family mask of the network's family is the      *)
(* single size returned.                                                   *)
(***************************************************************************)
C7_PerFamilyMaskOnSingleStack ==
    (MaskDone /\ Len(clusterCIDRs) = 1 /\ config.NodeCIDRMaskSize = 0)
    => LET v6 == FamilyV6(clusterCIDRs[1])
           m4 == config.NodeCIDRMaskSizeIPv4
           m6 == config.NodeCIDRMaskSizeIPv6
       IN  /\ (m4 # 0 /\ v6) =>
                (MaskFailed /\ err = ErrMaskV4OnIPv6 /\ nodeCIDRMaskSizes = <<>>)
           /\ (m6 # 0 /\ ~v6) =>
                (MaskFailed /\ err = ErrMaskV6OnIPv4 /\ nodeCIDRMaskSizes = <<>>)
           /\ (m4 # 0 /\ ~v6 /\ m6 = 0) => (MaskOK /\ nodeCIDRMaskSizes = <<m4>>)
           /\ (m6 # 0 /\ v6 /\ m4 = 0) => (MaskOK /\ nodeCIDRMaskSizes = <<m6>>)

\* A single IPv6 cluster with only NodeCIDRMaskSizeIPv4 set was refused.
C7_Witness ==
    /\ MaskFailed
    /\ Len(clusterCIDRs) = 1
    /\ FamilyV6(clusterCIDRs[1])
    /\ config.NodeCIDRMaskSize = 0
    /\ config.NodeCIDRMaskSizeIPv4 # 0
    /\ config.NodeCIDRMaskSizeIPv6 = 0
    /\ err = ErrMaskV4OnIPv6

(***************************************************************************)
(* C8.  One cluster CIDR, NodeCIDRMaskSize set: setNodeCIDRMaskSizes fails *)
(* with the conflicting-mask error if a per-family mask is set too, and    *)
(* otherwise returns [NodeCIDRMaskSize] for a network of either family.    *)
(***************************************************************************)
C8_LegacyMaskOnSingleStack ==
    (MaskDone /\ Len(clusterCIDRs) = 1 /\ config.NodeCIDRMaskSize # 0)
    => IF config.NodeCIDRMaskSizeIPv4 # 0 \/ config.NodeCIDRMaskSizeIPv6 # 0
       THEN MaskFailed /\ err = ErrFamilyMaskWithMask /\ nodeCIDRMaskSizes = <<>>
       ELSE MaskOK /\ nodeCIDRMaskSizes = <<config.NodeCIDRMaskSize>>

\* A single IPv6 cluster with only NodeCIDRMaskSize set got that size.
C8_Witness ==
    /\ MaskOK
    /\ Len(clusterCIDRs) = 1
    /\ FamilyV6(clusterCIDRs[1])
    /\ config.NodeCIDRMaskSize # 0
    /\ nodeCIDRMaskSizes = <<config.NodeCIDRMaskSize>>

(***************************************************************************)
(* C9.  Two cluster CIDRs, NodeCIDRMaskSize unset: setNodeCIDRMaskSizes    *)
(* succeeds and returns in input order NodeCIDRMaskSizeIPv4 (24 when 0)    *)
(* for the IPv4 network and NodeCIDRMaskSizeIPv6 (64 when 0) for the IPv6  *)
(* network.                                                                *)
(***************************************************************************)
C9_DualStackSizes ==
    (MaskDone /\ Len(clusterCIDRs) = 2 /\ config.NodeCIDRMaskSize = 0)
    => LET size4 == IF config.NodeCIDRMaskSizeIPv4 = 0
                    THEN 24 ELSE config.NodeCIDRMaskSizeIPv4
           size6 == IF config.NodeCIDRMaskSizeIPv6 = 0
                    THEN 64 ELSE config.NodeCIDRMaskSizeIPv6
       IN  /\ MaskOK
           /\ nodeCIDRMaskSizes =
                IF FamilyV6(clusterCIDRs[1]) THEN <<size6, size4>>
                                             ELSE <<size4, size6>>

\* [IPv4, IPv6] with the masks 23 and 80 resolved to [23, 80].
C9_Witness ==
    /\ MaskOK
    /\ Len(clusterCIDRs) = 2
    /\ ~FamilyV6(clusterCIDRs[1]) /\ FamilyV6(clusterCIDRs[2])
    /\ config.NodeCIDRMaskSizeIPv4 = 23
    /\ config.NodeCIDRMaskSizeIPv6 = 80
    /\ nodeCIDRMaskSizes = <<23, 80>>

IpamWanted ==
    /\ config.AllocateNodeCIDRs
    /\ ~(config.CloudNil /\ config.CIDRAllocatorType = "CloudAllocator")

\* startNodeRouteController got past its switches.
RouteWanted ==
    /\ config.AllocateNodeCIDRs
    /\ config.ConfigureCloudRoutes
    /\ ~config.CloudNil
    /\ config.RoutesSupported

\* --cluster-cidr has a segment that does not parse, more than two networks,
\* or two networks of one family.
ClusterFailure ==
    \/ Supplied.err # "nil"
    \/ Len(Supplied.cidrs) > 2
    \/ Len(Supplied.cidrs) = 2 /\ SameFamily(Supplied.cidrs)

\* A service CIDR flag is set.
ServiceConfigured(s) == \E i \in 1..Len(s) : s[i] # SP

\* A service CIDR flag is set to text that is not a network.
ServiceUnparseable(s) ==
    ServiceConfigured(s) /\ ~(Len(s) = 1 /\ s[1].ones >= 0)

\* Both service CIDR flags name a network, and the two are of one family.
ServicePairingFailure ==
    LET p == config.ServiceCIDR
        q == config.SecondaryServiceCIDR
    IN  /\ ServiceConfigured(p) /\ ~ServiceUnparseable(p)
        /\ ServiceConfigured(q) /\ ~ServiceUnparseable(q)
        /\ (p[1].addr \in IPv6Texts) = (q[1].addr \in IPv6Texts)

\* The mask flags contradict each other or the cluster CIDRs.
MaskConflict ==
    /\ Supplied.err = "nil"
    /\ LET legacy == config.NodeCIDRMaskSize
           m4 == config.NodeCIDRMaskSizeIPv4
           m6 == config.NodeCIDRMaskSizeIPv6
       IN  \/ Len(Supplied.cidrs) = 2 /\ legacy # 0
           \/ /\ Len(Supplied.cidrs) = 1
              /\ \/ legacy # 0 /\ (m4 # 0 \/ m6 # 0)
                 \/ legacy = 0 /\ m4 # 0 /\ FamilyV6(Supplied.cidrs[1])
                 \/ legacy = 0 /\ m6 # 0 /\ ~FamilyV6(Supplied.cidrs[1])

\* startNodeIpamController has returned an error and has neither built nor
\* started the controller.
IpamRefused ==
    /\ ~constructed
    /\ ~running
    /\ pc = "returned" => (err # "nil" /\ ~started)

(***************************************************************************)
(* C11.  As claimed: every failure to resolve the address plan, an         *)
(* unparseable primary or secondary service CIDR included, makes           *)
(* startNodeIpamController return an error without building or starting    *)
(* the node IPAM controller.                                               *)
(***************************************************************************)
C11_Original_EveryFailureAborts ==
    (IpamWanted /\ (\/ ClusterFailure
                    \/ ServiceUnparseable(config.ServiceCIDR)
                    \/ ServiceUnparseable(config.SecondaryServiceCIDR)
                    \/ ServicePairingFailure
                    \/ MaskConflict))
    => IpamRefused

(***************************************************************************)
(* C11, amended.  An unparseable cluster CIDR, a cluster or service CIDR   *)
(* pair that is not dual-stack and a conflicting mask configuration make   *)
(* startNodeIpamController return an error with started = false, and the   *)
(* node IPAM controller is then never built or started.  An unparseable    *)
(* primary or secondary service CIDR is only logged: that service CIDR     *)
(* stays nil and by itself it causes no error.                             *)
(***************************************************************************)
C11_ResolutionFailureAborts ==
    /\ (IpamWanted /\ (ClusterFailure \/ ServicePairingFailure \/ MaskConflict))
       => IpamRefused
    /\ (IpamWanted /\ ~ClusterFailure /\ ~MaskConflict /\ pc = "returned"
          /\ ServiceUnparseable(config.ServiceCIDR))
       => (serviceCIDR = NilNet /\ started
             /\ err \in {"nil", "NewNodeIpamControllerFailed"})
    /\ (IpamWanted /\ ~ClusterFailure /\ ~MaskConflict /\ pc = "returned"
          /\ ServiceUnparseable(config.SecondaryServiceCIDR))
       => (secondaryServiceCIDR = NilNet /\ started
             /\ err \in {"nil", "NewNodeIpamControllerFailed"})

\* Two service CIDRs of one family were refused before the controller was built.
C11_Witness ==
    /\ pc = "returned"
    /\ ServicePairingFailure
    /\ err = "ServiceCIDRsNotDualStack"
    /\ ~started /\ ~constructed /\ ~running

(***************************************************************************)
(* C12.  The goroutine of the node IPAM controller is started only in a    *)
(* state where validateCIDRs and setNodeCIDRMaskSizes have returned        *)
(* without error in this call, and the goroutine of the route controller   *)
(* only in a state where validateCIDRs has returned without error in this  *)
(* call: no start precedes the end of the CIDR resolution.                 *)
(***************************************************************************)
C12_StartOnlyAfterResolution ==
    [][ /\ (~running /\ running') =>
              /\ pc = "run"
              /\ clusterCIDRs # <<>> /\ ~ClusterFailure
              /\ nodeCIDRMaskSizes # <<>> /\ ~MaskConflict
        /\ (~routeRunning /\ routeRunning') =>
              /\ routePc = "run"
              /\ routeClusterCIDRs # <<>> /\ ~ClusterFailure ]_vars

\* Both controllers run on a dual-stack cluster.
C12_Witness ==
    /\ running
    /\ routeRunning
    /\ Len(clusterCIDRs) = 2
    /\ Len(nodeCIDRMaskSizes) = 2
    /\ routeClusterCIDRs = clusterCIDRs

(***************************************************************************)
(* The service range of the API server: getServiceIPAndRanges and          *)
(* ServerRunOptions.Complete (completion.go 53-142).                       *)
(***************************************************************************)
\* Largest number of comma-separated segments in --service-cluster-ip-range.
MaxServiceSegs == 3

\* kubeoptions.DefaultServiceIPCIDR, the range ServiceIPRange takes for the
\* zero-value network.
DefaultServiceIPCIDR == [IP |-> [a |-> "10.0.0.0", len |-> 4], Ones |-> 24]

\* The number of addresses of a network, capped at 1<<16 as ServiceIPRange
\* caps it.
RangeSize(n) ==
    LET hostBits == (IF n.IP.len = 4 THEN 32 ELSE 128) - n.Ones
    IN  IF hostBits >= 16 THEN 65536 ELSE 2 ^ hostBits

\* controlplane.ServiceIPRange: the zero-value network stands for the
\* default range; a range of fewer than 8 addresses is refused; the reserved
\* address is the first address after the base of the range.
ServiceIPRange(passedServiceClusterIPRange) ==
    LET serviceClusterIPRange ==
            IF passedServiceClusterIPRange.IP.len = 0
            THEN DefaultServiceIPCIDR ELSE passedServiceClusterIPRange
    IN  IF RangeSize(serviceClusterIPRange) < 8
        THEN [net |-> NilNet, ip |-> NilIP, err |-> "RangeTooSmall"]
        ELSE [net |-> serviceClusterIPRange,
              ip  |-> [a |-> serviceClusterIPRange.IP.a,
                       len |-> serviceClusterIPRange.IP.len, host |-> 1],
              err |-> "nil"]

\* return net.IP{}, net.IPNet{}, net.IPNet{}, e
ServiceRangeError(e, calls) ==
    [ip |-> NilIP, primary |-> NilNet, secondary |-> NilNet, err |-> e,
     calls |-> calls]

\* serviceClusterIPRangeList without the test for the empty string.
serviceClusterIPRangeListAlwaysSplit(ranges) == Split(ranges)

\* completion.go 102-105
serviceClusterIPRangeList(ranges) ==
    IF ranges # <<>> THEN Split(ranges) ELSE <<>>

\* completion.go 113-120: nothing provided, the default range.
defaultServiceRange ==
    LET r == ServiceIPRange(NilNet) IN
    IF r.err # "nil"
    THEN ServiceRangeError("ServiceIPRangeFailed", <<NilNet>>)
    ELSE [ip |-> r.ip, primary |-> r.net, secondary |-> NilNet, err |-> "nil",
          calls |-> <<NilNet>>]

\* withSecondary that hands back the resolved primary when the secondary
\* does not parse.
withSecondaryKeepsPrimary(list, r, calls) ==
    IF Len(list) > 1
    THEN LET q == ParseCIDRSloppy(list[2]) IN
         IF q.err # "nil"
         THEN [ip |-> r.ip, primary |-> r.net, secondary |-> NilNet,
               err |-> "SecondaryNotIPNet", calls |-> calls]
         ELSE [ip |-> r.ip, primary |-> r.net, secondary |-> q.net,
               err |-> "nil", calls |-> calls]
    ELSE [ip |-> r.ip, primary |-> r.net, secondary |-> NilNet, err |-> "nil",
          calls |-> calls]

\* withSecondary that refuses a secondary of the family of the primary.
withSecondaryPaired(list, r, calls) ==
    IF Len(list) > 1
    THEN LET q == ParseCIDRSloppy(list[2]) IN
         IF q.err # "nil"
         THEN ServiceRangeError("SecondaryNotIPNet", calls)
         ELSE IF IsIPv6CIDR(q.net) = IsIPv6CIDR(r.net)
         THEN ServiceRangeError("NotDualStack", calls)
         ELSE [ip |-> r.ip, primary |-> r.net, secondary |-> q.net,
               err |-> "nil", calls |-> calls]
    ELSE [ip |-> r.ip, primary |-> r.net, secondary |-> NilNet, err |-> "nil",
          calls |-> calls]

\* completion.go 132-141: r is what ServiceIPRange returned for the primary.
withSecondary(list, r, calls) ==
    IF Len(list) > 1
    THEN LET q == ParseCIDRSloppy(list[2]) IN
         IF q.err # "nil"
         THEN ServiceRangeError("SecondaryNotIPNet", calls)
         ELSE [ip |-> r.ip, primary |-> r.net, secondary |-> q.net,
               err |-> "nil", calls |-> calls]
    ELSE [ip |-> r.ip, primary |-> r.net, secondary |-> NilNet, err |-> "nil",
          calls |-> calls]

\* primaryRange that asks ServiceIPRange about the last segment.
primaryRangeOfLast(list) ==
    LET p == ParseCIDRSloppy(list[1])
        l == ParseCIDRSloppy(list[Len(list)])
    IN  IF p.err # "nil" \/ l.err # "nil"
        THEN [r |-> [net |-> NilNet, ip |-> NilIP, err |-> "PrimaryNotCIDR"],
              calls |-> <<>>]
        ELSE [r |-> [net |-> p.net, ip |-> ServiceIPRange(l.net).ip,
                     err |-> ServiceIPRange(l.net).err],
              calls |-> <<l.net>>]

\* completion.go 122-130: the first segment and what ServiceIPRange makes of it.
primaryRange(list) ==
    LET p == ParseCIDRSloppy(list[1]) IN
    IF p.err # "nil"
    THEN [r |-> [net |-> NilNet, ip |-> NilIP, err |-> "PrimaryNotCIDR"],
          calls |-> <<>>]
    ELSE LET r == ServiceIPRange(p.net) IN
         [r |-> [net |-> r.net, ip |-> r.ip,
                 err |-> IF r.err # "nil" THEN "PrimaryServiceIPRangeFailed"
                         ELSE "nil"],
          calls |-> <<p.net>>]

\* completion.go 101-142
getServiceIPAndRanges(ranges) ==
    LET list == serviceClusterIPRangeList(ranges) IN
    IF Len(list) = 0 THEN defaultServiceRange
    ELSE LET p == primaryRange(list) IN
         IF p.r.err # "nil" THEN ServiceRangeError(p.r.err, p.calls)
         ELSE withSecondary(list, p.r, p.calls)

\* The segments a --service-cluster-ip-range value is made of: a network of
\* either family, a network of 4 addresses, unparseable text and the empty
\* segment.
ServiceRangeSegments ==
    { <<Lit("10.96.0.0", 12)>>, <<Lit("fd00::", 108)>>, <<Lit("10.0.0.0", 30)>>,
      <<JUNK>>, <<>> }

ServiceRangeValues ==
    { Join(segs) :
        segs \in UNION { [1..n -> ServiceRangeSegments] : n \in 1..MaxServiceSegs } }

\* The controller manager is not part of the API server process.
ControllerManagerIdle ==
    /\ pc = "idle"
    /\ config = Config(FALSE, TRUE, "RangeAllocator", FALSE, FALSE,
                       <<>>, <<>>, <<>>, 0, 0, 0)
    /\ clusterCIDRs = <<>>
    /\ serviceCIDR = NilNet
    /\ secondaryServiceCIDR = NilNet
    /\ nodeCIDRMaskSizes = <<>>
    /\ err = "nil"
    /\ started = FALSE
    /\ constructed = FALSE
    /\ running = FALSE
    /\ RouteInit

\* Complete is called on nil options or on options with some
\* ServiceClusterIPRanges.
ApiInit ==
    /\ apiPc \in {"start", "startNilOpts"}
    /\ serviceClusterIPRanges \in
         (IF apiPc = "start" THEN ServiceRangeValues ELSE {<<>>})
    /\ apiServerServiceIP = NilIP
    /\ primaryServiceIPRange = NilNet
    /\ secondaryServiceIPRange = NilNet
    /\ apiErr = "nil"
    /\ serviceIPRangeCalls = <<>>
    /\ completed = FALSE
    /\ ControllerManagerIdle
    /\ SigInit
    /\ AuthzIdle

\* completion.go 54-56
CompleteNilOpts ==
    /\ apiPc = "startNilOpts"
    /\ apiPc' = "returnedNilOpts"
    /\ completed' = TRUE
    /\ UNCHANGED <<serviceClusterIPRanges, apiServerServiceIP,
                   primaryServiceIPRange, secondaryServiceIPRange, apiErr,
                   serviceIPRangeCalls>>
    /\ UNCHANGED <<ipamVars, routeVars, sigVars, authzVars>>

\* completion.go 60-63: an error of getServiceIPAndRanges ends Complete.
ResolveServiceRanges ==
    /\ apiPc = "start"
    /\ LET r == getServiceIPAndRanges(serviceClusterIPRanges) IN
       /\ apiServerServiceIP' = r.ip
       /\ primaryServiceIPRange' = r.primary
       /\ secondaryServiceIPRange' = r.secondary
       /\ apiErr' = r.err
       /\ serviceIPRangeCalls' = r.calls
       /\ apiPc' = IF r.err # "nil" THEN "returnedRangeErr" ELSE "optionsComplete"
    /\ UNCHANGED <<serviceClusterIPRanges, completed>>
    /\ UNCHANGED <<ipamVars, routeVars, sigVars, authzVars>>

\* completion.go 64-98: opts.Options.Complete and the watch cache sizes
\* belong to other packages and may fail; otherwise the three values are
\* stored in the CompletedOptions.
CompleteOptions ==
    /\ apiPc = "optionsComplete"
    /\ \E outcome \in {"nil", "OptionsCompleteFailed", "WatchCacheSizesFailed"} :
         /\ apiErr' = outcome
         /\ completed' = (outcome = "nil")
         /\ apiPc' = IF outcome = "nil" THEN "returned" ELSE "returnedOptionsErr"
    /\ UNCHANGED <<serviceClusterIPRanges, apiServerServiceIP,
                   primaryServiceIPRange, secondaryServiceIPRange,
                   serviceIPRangeCalls>>
    /\ UNCHANGED <<ipamVars, routeVars, sigVars, authzVars>>

ApiNext ==
    \/ CompleteNilOpts
    \/ ResolveServiceRanges
    \/ CompleteOptions

SpecService == ApiInit /\ [][ApiNext]_vars

(***************************************************************************)
(* Vocabulary of the service range properties.                             *)
(***************************************************************************)
\* getServiceIPAndRanges has returned without an error.
ApiResolved == apiPc \in {"optionsComplete", "returned", "returnedOptionsErr"}

\* getServiceIPAndRanges has returned an error.
ApiRangeFailed == apiPc = "returnedRangeErr"

ApiRangeDone == ApiResolved \/ ApiRangeFailed

\* The comma-separated segments of --service-cluster-ip-range, none for the
\* empty string.
RangeSegments ==
    IF serviceClusterIPRanges = <<>> THEN <<>> ELSE Split(serviceClusterIPRanges)

\* The address lies in the network.
Contains(n, ip) ==
    /\ n.IP.len # 0
    /\ ip.a = n.IP.a
    /\ ip.len = n.IP.len
    /\ ip.host >= 0
    /\ ip.host < RangeSize(n)

(***************************************************************************)
(* C13.  For the empty --service-cluster-ip-range getServiceIPAndRanges    *)
(* calls ServiceIPRange once, with the zero-value network, and returns     *)
(* the address and the network ServiceIPRange returned, a zero-value       *)
(* secondary network and no error.                                         *)
(***************************************************************************)
C13_EmptyRangeUsesDefault ==
    (ApiRangeDone /\ serviceClusterIPRanges = <<>>)
    => /\ ApiResolved
       /\ serviceIPRangeCalls = <<NilNet>>
       /\ apiServerServiceIP = ServiceIPRange(NilNet).ip
       /\ primaryServiceIPRange = ServiceIPRange(NilNet).net
       /\ primaryServiceIPRange # NilNet
       /\ secondaryServiceIPRange = NilNet

\* Complete has returned for the empty string with the default range.
C13_Witness ==
    /\ apiPc = "returned"
    /\ serviceClusterIPRanges = <<>>
    /\ serviceIPRangeCalls = <<NilNet>>
    /\ primaryServiceIPRange = DefaultServiceIPCIDR
    /\ secondaryServiceIPRange = NilNet

(***************************************************************************)
(* C14.  getServiceIPAndRanges fails when the first segment is not a CIDR  *)
(* and when there is a second segment that is not a CIDR; every failure    *)
(* returns the zero-value address, primary and secondary, also when the    *)
(* primary had been resolved before the secondary failed, and Complete     *)
(* then returns no completed options.                                      *)
(***************************************************************************)
C14_FailureReturnsZeroValues ==
    /\ (ApiRangeDone /\ Len(RangeSegments) >= 1 /\ ~ParseOK(RangeSegments[1]))
       => ApiRangeFailed
    /\ (ApiRangeDone /\ Len(RangeSegments) >= 2 /\ ~ParseOK(RangeSegments[2]))
       => ApiRangeFailed
    /\ ApiRangeFailed =>
         /\ apiErr # "nil"
         /\ apiServerServiceIP = NilIP
         /\ primaryServiceIPRange = NilNet
         /\ secondaryServiceIPRange = NilNet
         /\ ~completed

\* The secondary did not parse after ServiceIPRange had accepted the primary.
C14_Witness ==
    /\ ApiRangeFailed
    /\ Len(RangeSegments) = 2
    /\ ParseOK(RangeSegments[1])
    /\ ~ParseOK(RangeSegments[2])
    /\ Len(serviceIPRangeCalls) = 1
    /\ ServiceIPRange(serviceIPRangeCalls[1]).err = "nil"
    /\ primaryServiceIPRange = NilNet

\* The first two segments name networks of one family.
SameFamilyServicePair ==
    /\ Len(RangeSegments) >= 2
    /\ ParseOK(RangeSegments[1])
    /\ ParseOK(RangeSegments[2])
    /\ (RangeSegments[1][1].addr \in IPv6Texts)
         = (RangeSegments[2][1].addr \in IPv6Texts)

(***************************************************************************)
(* C15.  As claimed: a primary and a secondary service CIDR of one         *)
(* address family make getServiceIPAndRanges fail.                         *)
(***************************************************************************)
C15_Original_SameFamilyPairFails ==
    (ApiRangeDone /\ SameFamilyServicePair) => ApiRangeFailed

(***************************************************************************)
(* C15, amended.  getServiceIPAndRanges does not compare the families:     *)
(* when the first two segments parse and ServiceIPRange accepts the        *)
(* primary, it succeeds and returns both networks, of one family or of     *)
(* two; the pairing is left to the validation of the options.              *)
(***************************************************************************)
C15_PairReturnedWhateverFamilies ==
    (ApiRangeDone /\ Len(RangeSegments) >= 2
        /\ ParseOK(RangeSegments[1]) /\ ParseOK(RangeSegments[2])
        /\ ServiceIPRange(ParseCIDRSloppy(RangeSegments[1]).net).err = "nil")
    => /\ ApiResolved
       /\ primaryServiceIPRange.IP.a = RangeSegments[1][1].addr
       /\ primaryServiceIPRange.Ones = RangeSegments[1][1].ones
       /\ secondaryServiceIPRange.IP.a = RangeSegments[2][1].addr
       /\ secondaryServiceIPRange.Ones = RangeSegments[2][1].ones

\* Two IPv4 networks were returned as primary and secondary.
C15_Witness ==
    /\ ApiResolved
    /\ SameFamilyServicePair
    /\ primaryServiceIPRange # NilNet
    /\ secondaryServiceIPRange # NilNet
    /\ ~IsIPv6CIDR(primaryServiceIPRange)
    /\ ~IsIPv6CIDR(secondaryServiceIPRange)

(***************************************************************************)
(* C16.  On every success of getServiceIPAndRanges the address returned    *)
(* is the one ServiceIPRange returned for the primary network and lies in  *)
(* the primary network returned, for no segment, one segment and two.      *)
(***************************************************************************)
C16_ReservedAddressInPrimary ==
    ApiResolved =>
        /\ Len(serviceIPRangeCalls) = 1
        /\ serviceIPRangeCalls[1] =
             (IF RangeSegments = <<>> THEN NilNet
              ELSE ParseCIDRSloppy(RangeSegments[1]).net)
        /\ apiServerServiceIP = ServiceIPRange(serviceIPRangeCalls[1]).ip
        /\ primaryServiceIPRange = ServiceIPRange(serviceIPRangeCalls[1]).net
        /\ Contains(primaryServiceIPRange, apiServerServiceIP)

\* An IPv4 primary with an IPv6 secondary: the address is in the primary and
\* not in the secondary.
C16_Witness ==
    /\ ApiResolved
    /\ Len(RangeSegments) = 2
    /\ ~IsIPv6CIDR(primaryServiceIPRange)
    /\ IsIPv6CIDR(secondaryServiceIPRange)
    /\ Contains(primaryServiceIPRange, apiServerServiceIP)
    /\ ~Contains(secondaryServiceIPRange, apiServerServiceIP)

(***************************************************************************)
(* Whitespace in --cluster-cidr (processCIDRs, core.go 823-836).           *)
(***************************************************************************)
\* The segments of --cluster-cidr as written, blanks included.
WrittenSegments == Split(config.ClusterCIDR)

\* Every segment is a valid CIDR once the blanks around it are dropped.
ValidUpToBlanks ==
    \A i \in 1..Len(WrittenSegments) : ParseOK(TrimSpace(WrittenSegments[i]))

\* Segment i without the blanks that lie at the start or the end of the list.
WithoutOuterBlanks(i) ==
    LET seg   == WrittenSegments[i]
        left  == IF i = 1 THEN TrimLeft(seg) ELSE seg
    IN  IF i = Len(WrittenSegments) THEN TrimRight(left) ELSE left

\* Some segment has a blank next to a comma.
BlankNextToComma ==
    \E i \in 1..Len(WrittenSegments) :
        WithoutOuterBlanks(i) # TrimSpace(WrittenSegments[i])

\* validateCIDRs refused the cluster CIDRs as unparseable.
InvalidCIDRReturned == pc = "returned" /\ err = "InvalidCIDR"

\* C17 as stated: a list of valid CIDRs with blanks around its segments
\* never fails with InvalidCIDR.
C17_Original_SegmentsTrimmed ==
    (ValidateDone /\ ValidUpToBlanks) => ~InvalidCIDRReturned

\* C17: processCIDRs trims the blanks around the whole list only.  A list of
\* valid CIDRs whose blanks lie at its start or end never fails with
\* InvalidCIDR; one with a blank next to a comma always does.
C17_OnlyOuterBlanksTrimmed ==
    (ValidateDone /\ ValidUpToBlanks) =>
        (InvalidCIDRReturned <=> BlankNextToComma)

\* A list of valid CIDRs with a blank after a comma was refused.
C17_Witness ==
    /\ ValidateDone
    /\ ValidUpToBlanks
    /\ BlankNextToComma
    /\ InvalidCIDRReturned

(***************************************************************************)
(* The pairing of the service CIDRs in startNodeIpamController (core.go    *)
(* 139-164).                                                               *)
(***************************************************************************)
\* Both service CIDR flags are configured and both parse.
ServicePairParses ==
    /\ ParseOK(config.ServiceCIDR)
    /\ ParseOK(config.SecondaryServiceCIDR)

\* The two service CIDRs are of one address family.
ServicePairOfOneFamily ==
    (config.ServiceCIDR[1].addr \in IPv6Texts)
        = (config.SecondaryServiceCIDR[1].addr \in IPv6Texts)

\* The errors of the pairing check.
PairingErrors == {"ServiceCIDRsNotDualStack", "DualStackCheckFailed"}

\* C24: in startNodeIpamController, with both service CIDRs configured and
\* parsed, the controller is started only if they are of different
\* families: a pair of one family returns the not-dual-stack error with
\* started = false.  When one of the two is unconfigured or does not parse,
\* no pairing check is made.
C24_ServicePairChecked ==
    /\ (IpamWanted /\ ServicePairParses /\ ServicePairOfOneFamily) =>
         /\ ~constructed
         /\ ~running
         /\ (pc = "returned" /\ ~ClusterFailure) =>
               (err = "ServiceCIDRsNotDualStack" /\ ~started)
    /\ running => (ServicePairParses => ~ServicePairOfOneFamily)
    /\ ~ServicePairParses => err \notin PairingErrors

\* The controller runs with an IPv4 and an IPv6 service CIDR.
C24_Witness ==
    /\ running
    /\ ServicePairParses
    /\ ~ServicePairOfOneFamily
    /\ serviceCIDR # NilNet
    /\ secondaryServiceCIDR # NilNet

\* One cluster CIDR, --node-cidr-mask-size unset, both per-family masks set.
FamilyPairOnSingleStack ==
    /\ IpamWanted
    /\ Supplied.err = "nil"
    /\ Len(Supplied.cidrs) = 1
    /\ config.NodeCIDRMaskSize = 0
    /\ config.NodeCIDRMaskSizeIPv4 # 0
    /\ config.NodeCIDRMaskSizeIPv6 # 0

\* C27: with one cluster CIDR and NodeCIDRMaskSize unset, setting both
\* NodeCIDRMaskSizeIPv4 and NodeCIDRMaskSizeIPv6 always fails with a
\* conflicting-mask error, for an IPv4 entry (the IPv6 mask is refused) and
\* for an IPv6 entry (the IPv4 mask is refused); the controller is never
\* built.
C27_FamilyPairRefusedOnSingleStack ==
    FamilyPairOnSingleStack =>
        /\ ~constructed
        /\ ~running
        /\ nodeCIDRMaskSizes = <<>>
        /\ (pc = "returned" /\ ~(ServicePairParses /\ ServicePairOfOneFamily)) =>
              /\ ~started
              /\ err = IF FamilyV6(Supplied.cidrs[1])
                       THEN ErrMaskV4OnIPv6 ELSE ErrMaskV6OnIPv4

\* Both per-family masks were set for one IPv4 cluster CIDR and refused.
C27_Witness ==
    /\ FamilyPairOnSingleStack
    /\ ~FamilyV6(Supplied.cidrs[1])
    /\ pc = "returned"
    /\ ~started
    /\ err = ErrMaskV6OnIPv4

(***************************************************************************)
(* Signal handling: SetupSignalHandler, SetupSignalContext,                *)
(* RequestShutdown and the handler goroutine (completion.go 172-225).      *)
(***************************************************************************)
\* Largest number of calls of SetupSignalContext / SetupSignalHandler.
MaxSetupCalls == 3

\* Largest number of signals raised and shutdowns requested.
MaxSignals == 4

\* The process has not exited.
Alive == exitCode = -1

\* shutdownSignals: os.Interrupt and SIGTERM.
shutdownSignals == <<"SIGINT", "SIGTERM">>

\* The capacity of shutdownHandler (line 196).
shutdownHandlerCap == 2

\* SetupSignalContextCall without the close of onlyOneSignalHandler.
SetupSignalContextCallUnguarded ==
    /\ setupCalls' = setupCalls + 1
    /\ onlyOneSignalHandler' = "closed"
    /\ shutdownHandler' = [made |-> TRUE, buf |-> <<>>]
    /\ notified' = TRUE
    /\ handlers' = handlers + 1
    /\ handlerPc' = "recv1"
    /\ UNCHANGED <<ctxDone, exitCode, panics, delivered, received, lastRequest,
                   signalsSent>>

\* completion.go 193-211.  close(onlyOneSignalHandler) panics on a closed
\* channel, before anything else is done; the caller may recover from the
\* panic, otherwise the process ends with exit code 2.
SetupSignalContextCall ==
    /\ setupCalls' = setupCalls + 1
    /\ IF onlyOneSignalHandler = "closed"
       THEN /\ panics' = panics + 1
            /\ \E recovered \in BOOLEAN :
                 exitCode' = IF recovered THEN exitCode ELSE 2
            /\ UNCHANGED <<onlyOneSignalHandler, shutdownHandler, notified,
                           handlers, handlerPc>>
       ELSE /\ onlyOneSignalHandler' = "closed"
            /\ shutdownHandler' = [made |-> TRUE, buf |-> <<>>]
            /\ notified' = TRUE
            /\ handlers' = handlers + 1
            /\ handlerPc' = "recv1"
            /\ UNCHANGED <<panics, exitCode>>
    /\ UNCHANGED <<ctxDone, delivered, received, lastRequest, signalsSent>>

\* completion.go 193-211: the caller gets the context.
SetupSignalContext ==
    /\ Alive
    /\ setupCalls < MaxSetupCalls
    /\ SetupSignalContextCall
    /\ returnedKind' = IF onlyOneSignalHandler = "closed" THEN returnedKind
                       ELSE "context"
    /\ UNCHANGED <<ipamVars, routeVars, apiVars, authzVars>>

\* completion.go 186-188: the caller gets the Done channel of the context.
SetupSignalHandler ==
    /\ Alive
    /\ setupCalls < MaxSetupCalls
    /\ SetupSignalContextCall
    /\ returnedKind' = IF onlyOneSignalHandler = "closed" THEN returnedKind
                       ELSE "stop channel"
    /\ UNCHANGED <<ipamVars, routeVars, apiVars, authzVars>>

\* os/signal delivers a registered signal without blocking: it is dropped
\* when the buffer is full.
DeliverSignal ==
    /\ Alive
    /\ notified
    /\ signalsSent < MaxSignals
    /\ signalsSent' = signalsSent + 1
    /\ \E i \in 1..Len(shutdownSignals) :
         IF Len(shutdownHandler.buf) < shutdownHandlerCap
         THEN /\ shutdownHandler' =
                   [shutdownHandler EXCEPT !.buf = Append(@, shutdownSignals[i])]
              /\ delivered' = delivered + 1
         ELSE UNCHANGED <<shutdownHandler, delivered>>
    /\ UNCHANGED <<onlyOneSignalHandler, notified, ctxDone, handlerPc, handlers,
                   exitCode, setupCalls, panics, received, lastRequest,
                   returnedKind>>
    /\ UNCHANGED <<ipamVars, routeVars, apiVars, authzVars>>

\* RequestShutdown that reports true whenever a handler was set up.
RequestShutdownAlwaysTrue ==
    /\ Alive
    /\ signalsSent < MaxSignals
    /\ signalsSent' = signalsSent + 1
    /\ IF shutdownHandler.made
       THEN /\ lastRequest' = "true"
            /\ IF Len(shutdownHandler.buf) < shutdownHandlerCap
               THEN /\ shutdownHandler' =
                         [shutdownHandler EXCEPT
                            !.buf = Append(@, shutdownSignals[1])]
                    /\ delivered' = delivered + 1
               ELSE UNCHANGED <<shutdownHandler, delivered>>
       ELSE /\ lastRequest' = "false"
            /\ UNCHANGED <<shutdownHandler, delivered>>
    /\ UNCHANGED <<onlyOneSignalHandler, notified, ctxDone, handlerPc, handlers,
                   exitCode, setupCalls, panics, received, returnedKind>>
    /\ UNCHANGED <<ipamVars, routeVars, apiVars, authzVars>>

\* completion.go 215-225
RequestShutdown ==
    /\ Alive
    /\ signalsSent < MaxSignals
    /\ signalsSent' = signalsSent + 1
    /\ IF shutdownHandler.made /\ Len(shutdownHandler.buf) < shutdownHandlerCap
       THEN /\ shutdownHandler' =
                 [shutdownHandler EXCEPT !.buf = Append(@, shutdownSignals[1])]
            /\ delivered' = delivered + 1
            /\ lastRequest' = "true"
       ELSE /\ lastRequest' = "false"
            /\ UNCHANGED <<shutdownHandler, delivered>>
    /\ UNCHANGED <<onlyOneSignalHandler, notified, ctxDone, handlerPc, handlers,
                   exitCode, setupCalls, panics, received, returnedKind>>
    /\ UNCHANGED <<ipamVars, routeVars, apiVars, authzVars>>

\* HandlerReceiveFirst that does not wait for a signal.
HandlerReceiveFirstNoWait ==
    /\ Alive
    /\ handlerPc = "recv1"
    /\ handlerPc' = "cancel"
    /\ UNCHANGED <<onlyOneSignalHandler, shutdownHandler, notified, ctxDone,
                   handlers, exitCode, setupCalls, panics, delivered, received,
                   lastRequest, signalsSent, returnedKind>>
    /\ UNCHANGED <<ipamVars, routeVars, apiVars, authzVars>>

\* completion.go 204: <-shutdownHandler
HandlerReceiveFirst ==
    /\ Alive
    /\ handlerPc = "recv1"
    /\ shutdownHandler.buf # <<>>
    /\ shutdownHandler' = [shutdownHandler EXCEPT !.buf = Tail(@)]
    /\ received' = received + 1
    /\ handlerPc' = "cancel"
    /\ UNCHANGED <<onlyOneSignalHandler, notified, ctxDone, handlers, exitCode,
                   setupCalls, panics, delivered, lastRequest, signalsSent,
                   returnedKind>>
    /\ UNCHANGED <<ipamVars, routeVars, apiVars, authzVars>>

\* completion.go 205: cancel()
HandlerCancel ==
    /\ Alive
    /\ handlerPc = "cancel"
    /\ ctxDone' = TRUE
    /\ handlerPc' = "recv2"
    /\ UNCHANGED <<onlyOneSignalHandler, shutdownHandler, notified, handlers,
                   exitCode, setupCalls, panics, delivered, received,
                   lastRequest, signalsSent, returnedKind>>
    /\ UNCHANGED <<ipamVars, routeVars, apiVars, authzVars>>

\* HandlerReceiveSecond that does not wait for a second signal.
HandlerReceiveSecondNoWait ==
    /\ Alive
    /\ handlerPc = "recv2"
    /\ handlerPc' = "exit"
    /\ UNCHANGED <<onlyOneSignalHandler, shutdownHandler, notified, ctxDone,
                   handlers, exitCode, setupCalls, panics, delivered, received,
                   lastRequest, signalsSent, returnedKind>>
    /\ UNCHANGED <<ipamVars, routeVars, apiVars, authzVars>>

\* completion.go 206: <-shutdownHandler
HandlerReceiveSecond ==
    /\ Alive
    /\ handlerPc = "recv2"
    /\ shutdownHandler.buf # <<>>
    /\ shutdownHandler' = [shutdownHandler EXCEPT !.buf = Tail(@)]
    /\ received' = received + 1
    /\ handlerPc' = "exit"
    /\ UNCHANGED <<onlyOneSignalHandler, notified, ctxDone, handlers, exitCode,
                   setupCalls, panics, delivered, lastRequest, signalsSent,
                   returnedKind>>
    /\ UNCHANGED <<ipamVars, routeVars, apiVars, authzVars>>

\* completion.go 207: os.Exit(1)
HandlerExit ==
    /\ Alive
    /\ handlerPc = "exit"
    /\ exitCode' = 1
    /\ handlerPc' = "exited"
    /\ UNCHANGED <<onlyOneSignalHandler, shutdownHandler, notified, ctxDone,
                   handlers, setupCalls, panics, delivered, received,
                   lastRequest, signalsSent, returnedKind>>
    /\ UNCHANGED <<ipamVars, routeVars, apiVars, authzVars>>

\* The goroutine of lines 203-208.
Handler ==
    \/ HandlerReceiveFirst
    \/ HandlerCancel
    \/ HandlerReceiveSecond
    \/ HandlerExit

SignalInit ==
    /\ SigInit
    /\ ControllerManagerIdle
    /\ ApiIdle
    /\ AuthzIdle

SignalNext ==
    \/ SetupSignalContext
    \/ SetupSignalHandler
    \/ DeliverSignal
    \/ RequestShutdown
    \/ HandlerReceiveFirst
    \/ HandlerCancel
    \/ HandlerReceiveSecond
    \/ HandlerExit

\* The Go scheduler runs the handler goroutine whenever it can take a step.
SpecSignal == SignalInit /\ [][SignalNext]_vars /\ WF_vars(Handler)

(***************************************************************************)
(* Claims about signal handling.                                           *)
(***************************************************************************)
\* C18: the context (and the stop channel, its Done channel) is cancelled
\* once the handler goroutine has received the first shutdown signal, unless
\* the process ends first, and it is never cancelled while no signal has
\* been delivered to shutdownHandler and received by the goroutine.
C18_CancelledOnFirstSignal ==
    /\ [](ctxDone => (delivered >= 1 /\ received >= 1))
    /\ (received >= 1) ~> (ctxDone \/ ~Alive)

\* The first signal was received and the context is cancelled; the process
\* is still running.
C18_Witness ==
    /\ ctxDone
    /\ received = 1
    /\ Alive

\* C19: the process exits with code 1 after the handler goroutine received a
\* second shutdown signal, and only then: not before the context was
\* cancelled, and never while at most one signal was delivered.
C19_ExitOnSecondSignal ==
    /\ [](exitCode = 1 => (ctxDone /\ received = 2))
    /\ [](delivered <= 1 => exitCode # 1)
    /\ (received = 2) ~> ~Alive

\* Two signals were delivered and the process exited with code 1.
C19_Witness ==
    /\ exitCode = 1
    /\ delivered = 2
    /\ received = 2

\* A call of SetupSignalContext or SetupSignalHandler returns or panics.
SetupCallStep == setupCalls' = setupCalls + 1

\* C20: the first call of SetupSignalContext / SetupSignalHandler succeeds
\* and starts the one handler goroutine; every later call of either panics
\* and leaves shutdownHandler, the registration, the goroutine and the
\* context as they were.
C20_SetupAtMostOnce ==
    /\ [][SetupCallStep =>
            IF setupCalls = 0
            THEN /\ panics' = panics
                 /\ shutdownHandler'.made
                 /\ handlers' = 1
            ELSE /\ panics' = panics + 1
                 /\ UNCHANGED <<onlyOneSignalHandler, shutdownHandler, notified,
                                handlers, handlerPc, ctxDone>>]_vars
    /\ [](handlers <= 1)

\* A later call panicked while a signal was waiting in shutdownHandler; the
\* caller recovered, and the signal is still there for the one goroutine.
C20_Witness ==
    /\ panics >= 1
    /\ handlers = 1
    /\ shutdownHandler.buf # <<>>
    /\ Alive

\* shutdownHandler is non-nil and has a free slot.
ShutdownHandlerHasRoom ==
    /\ shutdownHandler.made
    /\ Len(shutdownHandler.buf) < shutdownHandlerCap

\* C21: RequestShutdown never blocks: it can always be called and return.
\* It returns true exactly when it placed shutdownSignals[0] into
\* shutdownHandler, and false, leaving shutdownHandler alone, when no
\* handler was set up or the buffer of 2 is full.
C21_RequestShutdownNeverBlocks ==
    /\ []((Alive /\ signalsSent < MaxSignals) => ENABLED RequestShutdown)
    /\ [][RequestShutdown =>
            IF ShutdownHandlerHasRoom
            THEN /\ lastRequest' = "true"
                 /\ shutdownHandler'.buf =
                        Append(shutdownHandler.buf, shutdownSignals[1])
            ELSE /\ lastRequest' = "false"
                 /\ UNCHANGED shutdownHandler]_vars
    /\ [](lastRequest = "true" => (shutdownHandler.made /\ delivered >= 1))

\* A request was refused because both slots of shutdownHandler were taken.
C21_Witness ==
    /\ lastRequest = "false"
    /\ shutdownHandler.made
    /\ Len(shutdownHandler.buf) = shutdownHandlerCap

(***************************************************************************)
(* BuiltInAuthorizationOptions (part_000): NewBuiltInAuthorizationOptions, *)
(* AddFlags, Complete, Validate, ToAuthorizationConfig and                 *)
(* buildAuthorizationConfiguration.                                        *)
(***************************************************************************)
\* Longest --authorization-mode list.
MaxModes == 2

\* Largest number of calls of Complete.
MaxCompleteCalls == 2

defaultWebhookName == "default"

\* authzmodes: the mode names and the modes the API server knows.
ModeAlwaysAllow == "AlwaysAllow"
ModeABAC == "ABAC"
ModeWebhook == "Webhook"
AuthorizationModeChoices ==
    {ModeAlwaysAllow, "AlwaysDeny", ModeABAC, ModeWebhook, "RBAC", "Node"}

IsValidAuthorizationMode(mode) == mode \in AuthorizationModeChoices

\* authzconfig.TypeWebhook
TypeWebhook == "Webhook"

\* The mode names given on the command line; "Bogus" is no known mode.
ModeTexts == {ModeAlwaysAllow, ModeABAC, ModeWebhook, "Bogus"}

\* strings.ToLower on the texts above and on the authorizer types of a file.
ToLower(str) ==
    CASE str = "AlwaysAllow" -> "alwaysallow"
      [] str = "AlwaysDeny"  -> "alwaysdeny"
      [] str = "ABAC"        -> "abac"
      [] str = "Webhook"     -> "webhook"
      [] str = "RBAC"        -> "rbac"
      [] str = "Node"        -> "node"
      [] str = "Bogus"       -> "bogus"
      [] OTHER               -> str

\* part_000 346-350
getNameForAuthorizerMode(mode) == ToLower(mode)

\* sets.NewString(list...): the set of the strings of a list.
NewString(list) == { list[i] : i \in 1..Len(list) }

\* A nil *BuiltInAuthorizationOptions.
NilOptions == [isNil |-> TRUE]

\* A *wait.Backoff: nil, or a value with its Steps.
NilBackoff == [isNil |-> TRUE, Steps |-> 0]
Backoff(steps) == [isNil |-> FALSE, Steps |-> steps]

\* genericoptions.DefaultAuthWebhookRetryBackoff().Steps
DefaultAuthWebhookRetrySteps == 5

\* part_000 87-95.  AreLegacyFlagsSet is "nil" (no function), or what the
\* function reports: "true" or "false".
NewBuiltInAuthorizationOptions ==
    [isNil                          |-> FALSE,
     Modes                          |-> <<>>,
     PolicyFile                     |-> "",
     WebhookConfigFile              |-> "",
     WebhookVersion                 |-> "v1beta1",
     WebhookCacheAuthorizedTTL      |-> "5m",
     WebhookCacheUnauthorizedTTL    |-> "30s",
     WebhookRetryBackoff            |-> Backoff(DefaultAuthWebhookRetrySteps),
     AuthorizationConfigurationFile |-> "",
     AreLegacyFlagsSet              |-> "nil"]

\* What a command line says about the authorization flags: a flag that is
\* not given is "unset" (<<"unset">> for the mode list).
NoFlags ==
    [mode |-> <<"unset">>, policyFile |-> "unset", webhookConfigFile |-> "unset",
     webhookVersion |-> "unset", authorizedTTL |-> "unset",
     unauthorizedTTL |-> "unset", config |-> "unset"]

\* fs.Changed(name)
Changed(args, name) == args[name] # NoFlags[name]

\* The value of a flag after parsing: the given one, else the default.
FlagValue(args, name, default) ==
    IF Changed(args, name) THEN args[name] ELSE default

\* part_000 197-243, followed by the parse of the command line args.
AddFlags(opts, args) ==
    [opts EXCEPT
       !.Modes = FlagValue(args, "mode", @),
       !.PolicyFile = FlagValue(args, "policyFile", @),
       !.WebhookConfigFile = FlagValue(args, "webhookConfigFile", @),
       !.WebhookVersion = FlagValue(args, "webhookVersion", @),
       !.WebhookCacheAuthorizedTTL = FlagValue(args, "authorizedTTL", @),
       !.WebhookCacheUnauthorizedTTL = FlagValue(args, "unauthorizedTTL", @),
       !.AuthorizationConfigurationFile = FlagValue(args, "config", @),
       !.AreLegacyFlagsSet =
           IF \/ opts.AreLegacyFlagsSet = "true"
              \/ Changed(args, "mode")
              \/ Changed(args, "webhookConfigFile")
              \/ Changed(args, "webhookVersion")
              \/ Changed(args, "authorizedTTL")
              \/ Changed(args, "unauthorizedTTL")
           THEN "true" ELSE "false"]

\* Complete that does not look at --authorization-config.
CompleteIgnoresConfigFile(opts) ==
    IF Len(opts.Modes) = 0
    THEN [opts EXCEPT !.Modes = <<ModeAlwaysAllow>>]
    ELSE opts

\* part_000 99-104: the options after Complete (it always returns nil).
Complete(opts) ==
    IF opts.AuthorizationConfigurationFile = "" /\ Len(opts.Modes) = 0
    THEN [opts EXCEPT !.Modes = <<ModeAlwaysAllow>>]
    ELSE opts

\* part_000 165-175: the errors of the loop over the modes, in order.
RECURSIVE ModeErrors(_, _)
ModeErrors(modes, opts) ==
    IF modes = <<>> THEN <<>>
    ELSE LET mode == Head(modes) IN
         (IF ~IsValidAuthorizationMode(mode) THEN <<"InvalidMode">> ELSE <<>>)
         \o (IF mode = ModeABAC /\ opts.PolicyFile = ""
             THEN <<"PolicyFileMissing">> ELSE <<>>)
         \o (IF mode = ModeWebhook /\ opts.WebhookConfigFile = ""
             THEN <<"WebhookConfigFileMissing">> ELSE <<>>)
         \o ModeErrors(Tail(modes), opts)

\* part_000 145-154: the errors about the names of the authorizers of a file.
RECURSIVE AuthorizerNameErrors(_)
AuthorizerNameErrors(authorizers) ==
    IF authorizers = <<>> THEN <<>>
    ELSE LET authorizer == Head(authorizers) IN
         (IF /\ authorizer.Type # ModeWebhook
             /\ getNameForAuthorizerMode(authorizer.Type) # authorizer.Name
          THEN <<"UnexpectedName">> ELSE <<>>)
         \o AuthorizerNameErrors(Tail(authorizers))

\* Validate without the test for a repeated mode.
ValidateNoRepeatTest(opts, enabled, loaded) ==
    IF opts.isNil THEN <<>>
    ELSE IF opts.AuthorizationConfigurationFile # ""
    THEN IF ~enabled THEN <<"FeatureGateDisabled">>
         ELSE IF opts.AreLegacyFlagsSet # "nil" /\ opts.AreLegacyFlagsSet = "true"
         THEN <<"LegacyFlagsSet">>
         ELSE IF ~loaded.readable THEN <<"LoadFailed">>
         ELSE (IF loaded.invalid THEN <<"InvalidConfiguration">> ELSE <<>>)
              \o AuthorizerNameErrors(loaded.Authorizers)
    ELSE LET modes == NewString(opts.Modes) IN
         (IF Len(opts.Modes) = 0 THEN <<"NoModes">> ELSE <<>>)
         \o ModeErrors(opts.Modes, opts)
         \o (IF opts.PolicyFile # "" /\ ModeABAC \notin modes
             THEN <<"PolicyFileWithoutABAC">> ELSE <<>>)
         \o (IF opts.WebhookConfigFile # "" /\ ModeWebhook \notin modes
             THEN <<"WebhookConfigFileWithoutWebhook">> ELSE <<>>)
         \o (IF ~opts.WebhookRetryBackoff.isNil /\ opts.WebhookRetryBackoff.Steps <= 0
             THEN <<"RetryStepsNotPositive">> ELSE <<>>)

\* part_000 107-194: the errors Validate returns, in order.  enabled is the
\* feature gate, loaded is what load.LoadFromFile gives for the file.
Validate(opts, enabled, loaded) ==
    IF opts.isNil THEN <<>>
    ELSE IF opts.AuthorizationConfigurationFile # ""
    THEN IF ~enabled THEN <<"FeatureGateDisabled">>
         ELSE IF opts.AreLegacyFlagsSet # "nil" /\ opts.AreLegacyFlagsSet = "true"
         THEN <<"LegacyFlagsSet">>
         ELSE IF ~loaded.readable THEN <<"LoadFailed">>
         ELSE (IF loaded.invalid THEN <<"InvalidConfiguration">> ELSE <<>>)
              \o AuthorizerNameErrors(loaded.Authorizers)
    ELSE LET modes == NewString(opts.Modes) IN
         (IF Len(opts.Modes) = 0 THEN <<"NoModes">> ELSE <<>>)
         \o ModeErrors(opts.Modes, opts)
         \o (IF opts.PolicyFile # "" /\ ModeABAC \notin modes
             THEN <<"PolicyFileWithoutABAC">> ELSE <<>>)
         \o (IF opts.WebhookConfigFile # "" /\ ModeWebhook \notin modes
             THEN <<"WebhookConfigFileWithoutWebhook">> ELSE <<>>)
         \o (IF Len(opts.Modes) # Cardinality(modes)
             THEN <<"ModeRepeated">> ELSE <<>>)
         \o (IF ~opts.WebhookRetryBackoff.isNil /\ opts.WebhookRetryBackoff.Steps <= 0
             THEN <<"RetryStepsNotPositive">> ELSE <<>>)

\* A nil *authorizer.Config, a nil *WebhookConfiguration.
NilConfig == [isNil |-> TRUE]
NilWebhook == [isNil |-> TRUE]

\* The loop of buildAuthorizationConfiguration with the webhook authorizer
\* named like the others.
RECURSIVE lowerCasedAuthorizers(_, _)
lowerCasedAuthorizers(modes, opts) ==
    IF modes = <<>> THEN <<>>
    ELSE LET mode == Head(modes) IN
         <<IF mode = ModeWebhook
           THEN [Type    |-> TypeWebhook,
                 Name    |-> getNameForAuthorizerMode(mode),
                 Webhook |-> [isNil                      |-> FALSE,
                              AuthorizedTTL              |-> opts.WebhookCacheAuthorizedTTL,
                              UnauthorizedTTL            |-> opts.WebhookCacheUnauthorizedTTL,
                              SubjectAccessReviewVersion |-> opts.WebhookVersion,
                              KubeConfigFile             |-> opts.WebhookConfigFile]]
           ELSE [Type    |-> mode,
                 Name    |-> getNameForAuthorizerMode(mode),
                 Webhook |-> NilWebhook]>>
         \o lowerCasedAuthorizers(Tail(modes), opts)

\* part_000 315-341: one authorizer per mode, in the order of the modes.
RECURSIVE buildAuthorizers(_, _)
buildAuthorizers(modes, opts) ==
    IF modes = <<>> THEN <<>>
    ELSE LET mode == Head(modes) IN
         <<IF mode = ModeWebhook
           THEN [Type    |-> TypeWebhook,
                 Name    |-> defaultWebhookName,
                 Webhook |-> [isNil                      |-> FALSE,
                              AuthorizedTTL              |-> opts.WebhookCacheAuthorizedTTL,
                              UnauthorizedTTL            |-> opts.WebhookCacheUnauthorizedTTL,
                              SubjectAccessReviewVersion |-> opts.WebhookVersion,
                              KubeConfigFile             |-> opts.WebhookConfigFile]]
           ELSE [Type    |-> mode,
                 Name    |-> getNameForAuthorizerMode(mode),
                 Webhook |-> NilWebhook]>>
         \o buildAuthorizers(Tail(modes), opts)

\* buildAuthorizationConfiguration that names the webhook authorizer by its
\* lower-cased mode.
buildAuthorizationConfigurationLowerCasesWebhook(opts) ==
    IF Len(opts.Modes) # Cardinality(NewString(opts.Modes))
    THEN [Authorizers |-> <<>>, err |-> "ModesRepeated"]
    ELSE [Authorizers |-> lowerCasedAuthorizers(opts.Modes, opts), err |-> "nil"]

\* part_000 302-344
buildAuthorizationConfiguration(opts) ==
    IF Len(opts.Modes) # Cardinality(NewString(opts.Modes))
    THEN [Authorizers |-> <<>>, err |-> "ModesRepeated"]
    ELSE [Authorizers |-> buildAuthorizers(opts.Modes, opts), err |-> "nil"]

\* part_000 292-298
AuthorizerConfig(opts, authorizers) ==
    [config |-> [isNil                      |-> FALSE,
                 PolicyFile                 |-> opts.PolicyFile,
                 WebhookRetryBackoff        |-> opts.WebhookRetryBackoff,
                 AuthorizationConfiguration |-> authorizers],
     err |-> "nil"]

\* ToAuthorizationConfig that builds from the legacy flags when they are set
\* together with --authorization-config.
ToAuthorizationConfigFallsBack(opts, enabled, loaded) ==
    IF opts.isNil THEN [config |-> NilConfig, err |-> "nil"]
    ELSE IF /\ opts.AuthorizationConfigurationFile # ""
            /\ ~(opts.AreLegacyFlagsSet # "nil" /\ opts.AreLegacyFlagsSet = "true")
    THEN IF ~enabled THEN [config |-> NilConfig, err |-> "FeatureGateDisabled"]
         ELSE IF ~loaded.readable THEN [config |-> NilConfig, err |-> "LoadFailed"]
         ELSE IF loaded.invalid
         THEN [config |-> NilConfig, err |-> "InvalidConfiguration"]
         ELSE AuthorizerConfig(opts, loaded.Authorizers)
    ELSE LET built == buildAuthorizationConfiguration(opts) IN
         IF built.err # "nil" THEN [config |-> NilConfig, err |-> "BuildFailed"]
         ELSE AuthorizerConfig(opts, built.Authorizers)

\* part_000 246-299: the config and the error ToAuthorizationConfig returns.
ToAuthorizationConfig(opts, enabled, loaded) ==
    IF opts.isNil THEN [config |-> NilConfig, err |-> "nil"]
    ELSE IF opts.AuthorizationConfigurationFile # ""
    THEN IF ~enabled THEN [config |-> NilConfig, err |-> "FeatureGateDisabled"]
         ELSE IF opts.AreLegacyFlagsSet # "nil" /\ opts.AreLegacyFlagsSet = "true"
         THEN [config |-> NilConfig, err |-> "LegacyFlagsSet"]
         ELSE IF ~loaded.readable THEN [config |-> NilConfig, err |-> "LoadFailed"]
         ELSE IF loaded.invalid
         THEN [config |-> NilConfig, err |-> "InvalidConfiguration"]
         ELSE AuthorizerConfig(opts, loaded.Authorizers)
    ELSE LET built == buildAuthorizationConfiguration(opts) IN
         IF built.err # "nil" THEN [config |-> NilConfig, err |-> "BuildFailed"]
         ELSE AuthorizerConfig(opts, built.Authorizers)

(***************************************************************************)
(* The options the API server can be run with, and the calls on them.      *)
(***************************************************************************)
ModeLists == UNION { [1..n -> ModeTexts] : n \in 0..MaxModes }

\* At most one of the flags --authorization-webhook-version and
\* --authorization-webhook-cache-(un)authorized-ttl is given.
WebhookTuning ==
    { [webhookVersion |-> v, authorizedTTL |-> a, unauthorizedTTL |-> u] :
        <<v, a, u>> \in { <<"unset", "unset", "unset">>,
                          <<"v1", "unset", "unset">>,
                          <<"unset", "10m", "unset">>,
                          <<"unset", "unset", "10s">> } }

CommandLines ==
    { [mode              |-> m,
       policyFile        |-> p,
       webhookConfigFile |-> w,
       webhookVersion    |-> t.webhookVersion,
       authorizedTTL     |-> t.authorizedTTL,
       unauthorizedTTL   |-> t.unauthorizedTTL,
       config            |-> c] :
        m \in {<<"unset">>} \cup ModeLists,
        p \in {"unset", "policy.jsonl"},
        w \in {"unset", "webhook.kubeconfig"},
        t \in WebhookTuning,
        c \in {"unset", "authz.yaml"} }

Backoffs == {NilBackoff, Backoff(0), Backoff(DefaultAuthWebhookRetrySteps)}

\* Options filled from a command line, options filled by a program that
\* never calls AddFlags, and no options at all.
Options ==
    { AddFlags([NewBuiltInAuthorizationOptions EXCEPT !.WebhookRetryBackoff = b],
               args) : b \in Backoffs, args \in CommandLines }
    \cup
    { [NewBuiltInAuthorizationOptions EXCEPT
         !.Modes = m, !.AuthorizationConfigurationFile = c,
         !.AreLegacyFlagsSet = l] :
        m \in ModeLists, c \in {"", "authz.yaml"}, l \in {"nil", "true"} }
    \cup {NilOptions}

\* What load.LoadFromFile and validation.ValidateAuthorizationConfiguration
\* make of the file: unreadable; readable with well or badly named
\* authorizers; readable and invalid.
NoFile == [readable |-> FALSE, invalid |-> FALSE, Authorizers |-> <<>>]

FileContents ==
    { NoFile,
      [readable |-> TRUE, invalid |-> FALSE,
       Authorizers |-> <<[Type |-> "RBAC", Name |-> "rbac", Webhook |-> NilWebhook]>>],
      [readable |-> TRUE, invalid |-> FALSE,
       Authorizers |-> <<[Type |-> "RBAC", Name |-> "custom", Webhook |-> NilWebhook]>>],
      [readable |-> TRUE, invalid |-> TRUE,
       Authorizers |-> <<[Type |-> TypeWebhook, Name |-> "", Webhook |-> NilWebhook]>>] }

\* --authorization-config is set.
ConfigFileSet(opts) == ~opts.isNil /\ opts.AuthorizationConfigurationFile # ""

AuthzInit ==
    /\ authzPc = "options"
    /\ o \in Options
    /\ gate \in (IF ConfigFileSet(o) THEN BOOLEAN ELSE {FALSE})
    /\ file \in (IF ConfigFileSet(o) THEN FileContents ELSE {NoFile})
    /\ completeCalls = 0
    /\ validateErrors = <<>>
    /\ authorizerConfig = [config |-> NilConfig, err |-> "nil"]
    /\ ControllerManagerIdle
    /\ ApiIdle
    /\ SigInit

\* part_000 99-104; Complete reads the fields of o, so o is not nil.
CallComplete ==
    /\ authzPc = "options"
    /\ ~o.isNil
    /\ completeCalls < MaxCompleteCalls
    /\ o' = Complete(o)
    /\ completeCalls' = completeCalls + 1
    /\ UNCHANGED <<authzPc, gate, file, validateErrors, authorizerConfig>>
    /\ UNCHANGED <<ipamVars, routeVars, apiVars, sigVars>>

\* part_000 107-194
CallValidate ==
    /\ authzPc = "options"
    /\ validateErrors' = Validate(o, gate, file)
    /\ authzPc' = "validated"
    /\ UNCHANGED <<o, gate, file, completeCalls, authorizerConfig>>
    /\ UNCHANGED <<ipamVars, routeVars, apiVars, sigVars>>

\* part_000 246-299
CallToAuthorizationConfig ==
    /\ authzPc = "validated"
    /\ authorizerConfig' = ToAuthorizationConfig(o, gate, file)
    /\ authzPc' = "converted"
    /\ UNCHANGED <<o, gate, file, completeCalls, validateErrors>>
    /\ UNCHANGED <<ipamVars, routeVars, apiVars, sigVars>>

AuthzNext ==
    \/ CallComplete
    \/ CallValidate
    \/ CallToAuthorizationConfig

SpecAuthz == AuthzInit /\ [][AuthzNext]_vars

(***************************************************************************)
(* Claims about the authorization options.                                 *)
(***************************************************************************)
\* A call of Complete returns.
CompleteStep == completeCalls' = completeCalls + 1

ConfigFileWithLegacyFlags ==
    /\ ConfigFileSet(o)
    /\ o.AreLegacyFlagsSet = "true"

\* C23: when --authorization-config is set and AreLegacyFlagsSet reports
\* true, Validate returns a non-empty error list and ToAuthorizationConfig
\* returns an error and no config; the errors are those of the config-file
\* branch, nothing is built or validated from the legacy Modes.
C23_ConfigFileExcludesLegacyFlags ==
    ConfigFileWithLegacyFlags =>
        /\ authzPc \in {"validated", "converted"} =>
             validateErrors \in {<<"FeatureGateDisabled">>, <<"LegacyFlagsSet">>}
        /\ authzPc = "converted" =>
             /\ authorizerConfig.config.isNil
             /\ authorizerConfig.err \in {"FeatureGateDisabled", "LegacyFlagsSet"}

\* With the feature gate enabled, a config file and a mode list were given
\* together: both calls refused them for the legacy flags.
C23_Witness ==
    /\ authzPc = "converted"
    /\ ConfigFileWithLegacyFlags
    /\ gate
    /\ o.Modes # <<>>
    /\ validateErrors = <<"LegacyFlagsSet">>
    /\ authorizerConfig.err = "LegacyFlagsSet"

\* Validate has returned.
Validated == authzPc \in {"validated", "converted"}

\* mode is among o.Modes.
HasMode(mode) == \E i \in 1..Len(o.Modes) : o.Modes[i] = mode

\* What the legacy flags must satisfy.
LegacyFlagsValid ==
    /\ o.Modes # <<>>
    /\ \A i \in 1..Len(o.Modes) :
          o.Modes[i] \in {"AlwaysAllow", "AlwaysDeny", "ABAC", "Webhook", "RBAC", "Node"}
    /\ \A i, j \in 1..Len(o.Modes) : i # j => o.Modes[i] # o.Modes[j]
    /\ (o.PolicyFile # "") <=> HasMode("ABAC")
    /\ (o.WebhookConfigFile # "") <=> HasMode("Webhook")
    /\ o.WebhookRetryBackoff.isNil \/ o.WebhookRetryBackoff.Steps > 0

\* C25: without an authorization config file, Validate returns no error if
\* and only if Modes is non-empty, every mode is valid, no mode is repeated,
\* PolicyFile is set exactly when ABAC is a mode, WebhookConfigFile is set
\* exactly when Webhook is a mode, and WebhookRetryBackoff is nil or has
\* Steps > 0.
C25_LegacyValidationExact ==
    (Validated /\ ~o.isNil /\ o.AuthorizationConfigurationFile = "") =>
        (validateErrors = <<>> <=> LegacyFlagsValid)

\* Two modes, Webhook among them, passed Validate without an error.
C25_Witness ==
    /\ Validated
    /\ ~o.isNil
    /\ o.AuthorizationConfigurationFile = ""
    /\ Len(o.Modes) = 2
    /\ HasMode("Webhook")
    /\ validateErrors = <<>>

\* ToAuthorizationConfig has returned what it made of the legacy flags with
\* buildAuthorizationConfiguration.
BuiltFromModes ==
    /\ authzPc = "converted"
    /\ ~o.isNil
    /\ o.AuthorizationConfigurationFile = ""

\* Some mode occurs twice in o.Modes.
ModeRepeated == \E i, j \in 1..Len(o.Modes) : i # j /\ o.Modes[i] = o.Modes[j]

\* The authorizers of the returned config.
BuiltAuthorizers == authorizerConfig.config.AuthorizationConfiguration

\* C26: buildAuthorizationConfiguration fails if a mode is repeated in
\* Modes; otherwise it returns one authorizer per mode, in the order of
\* Modes: for Webhook the authorizer of type Webhook named "default", for
\* any other mode the authorizer whose type is the mode and whose name is
\* the lower-cased mode.
C26_OneAuthorizerPerMode ==
    BuiltFromModes =>
        IF ModeRepeated
        THEN /\ authorizerConfig.err = "BuildFailed"
             /\ authorizerConfig.config.isNil
        ELSE /\ authorizerConfig.err = "nil"
             /\ Len(BuiltAuthorizers) = Len(o.Modes)
             /\ \A i \in 1..Len(o.Modes) :
                  IF o.Modes[i] = "Webhook"
                  THEN /\ BuiltAuthorizers[i].Type = "Webhook"
                       /\ BuiltAuthorizers[i].Name = "default"
                  ELSE /\ BuiltAuthorizers[i].Type = o.Modes[i]
                       /\ BuiltAuthorizers[i].Name = ToLower(o.Modes[i])

\* [Webhook, ABAC] gave the authorizers "default" and "abac", in this order.
C26_Witness ==
    /\ BuiltFromModes
    /\ o.Modes = <<"Webhook", "ABAC">>
    /\ authorizerConfig.err = "nil"
    /\ BuiltAuthorizers[1].Name = "default"
    /\ BuiltAuthorizers[2].Name = "abac"

====
